---- MODULE Spec2Model ----
(***************************************************************************)
(* A model of netdiag.py (br3jski/net-diagnostics): the concurrent run     *)
(* scheduler (run_multiple_tests / run_test_worker / run_single_test), the *)
(* endpoint selector (select_best_server) and the path-MTU binary search   *)
(* (mtu_test).  External probes (sockets, iperf3, ping, mtr, DNS, HTTP)    *)
(* are the environment: their outcomes are nondeterministic inputs.        *)
(***************************************************************************)
EXTENDS Integers, Sequences, FiniteSets, TLC

(***************************************************************************)
(* Bounds of the model.                                                    *)
(***************************************************************************)
MaxRuns == 3
MaxParallel == 2
\* Budget of sub-test calls, over a whole run, that do not return a value
\* (they return None or raise).
MaxFailures == 2
\* Size of the candidate table of the selector: hosts, and ports per host.
MaxHosts == 2
MaxPorts == 3

(***************************************************************************)
(* Small helpers.                                                          *)
(***************************************************************************)
Min(a, b) == IF a <= b THEN a ELSE b
Max(a, b) == IF a >= b THEN a ELSE b

\* Python's list(range(1, n + 1)), line 679.
RangeList(n) == [i \in 1..n |-> i]

\* Python's s[:k], including a negative k (counted from the end).
PySliceTo(s, k) ==
    IF k >= 0 THEN SubSeq(s, 1, Min(k, Len(s)))
              ELSE SubSeq(s, 1, Max(Len(s) + k, 0))

\* Mutant of PySliceFrom: the rest of the list starts one element too late.
PySliceFromOffByOne(s, k) ==
    IF k >= 0 THEN SubSeq(s, Min(k + 1, Len(s)) + 1, Len(s))
              ELSE SubSeq(s, Max(Len(s) + k + 1, 0) + 1, Len(s))

\* Python's s[k:], including a negative k (counted from the end).
PySliceFrom(s, k) ==
    IF k >= 0 THEN SubSeq(s, Min(k, Len(s)) + 1, Len(s))
              ELSE SubSeq(s, Max(Len(s) + k, 0) + 1, Len(s))

(***************************************************************************)
(* One diagnostic pass: run_single_test, lines 645-659.                    *)
(***************************************************************************)
\* The sub-tests in the order run_single_test calls them.
Tests == <<"bufferbloat", "jitter", "mtr", "mtu", "dns", "cgnat">>

TestNames == {Tests[i] : i \in 1..Len(Tests)}

\* Sub-tests with a path that returns None (218; 307-321; 334,344,406,409;
\* 429,450; 487).  dns_test always returns a dict.
ReturnsNone == {"bufferbloat", "jitter", "mtr", "mtu", "cgnat"}

\* Sub-tests that make an external call outside any try/except, so that a
\* fault of that call leaves the sub-test as an exception: the sampler thread
\* start in bufferbloat_test (241-242), subprocess.run in mtu_test (440), the
\* resolver construction in dns_test (462-464).
CanRaise == {"bufferbloat", "mtu", "dns"}

\* What one call of sub-test t can do: return a value, return None, raise.
Outcomes(t) ==
    {"val"} \cup (IF t \in ReturnsNone THEN {"None"} ELSE {})
            \cup (IF t \in CanRaise THEN {"raise"} ELSE {})

\* results = {} of line 647: no key set yet.
EmptyResults == [t \in TestNames |-> "absent"]

\* Position of sub-test t in Tests.
TestIndex(t) == CHOOSE i \in 1..Len(Tests) : Tests[i] = t

\* Mutant of AfterTest: run_single_test returns right after bufferbloat.
AfterTestReturnEarly(t) ==
    IF t = "bufferbloat" THEN "put"
    ELSE IF TestIndex(t) < Len(Tests) THEN Tests[TestIndex(t) + 1] ELSE "put"

\* The statement after sub-test t of run_single_test: the next sub-test, or
\* the return to run_test_worker (lines 671-672).
AfterTest(t) ==
    IF TestIndex(t) < Len(Tests) THEN Tests[TestIndex(t) + 1] ELSE "put"

NoError == "no_error"

\* The dict a worker puts on the queue when the pass returned (671-672).
ResultEntry(run_id, res) == [run_id |-> run_id, error |-> NoError, results |-> res]

\* Mutant of ErrorEntry: the error dict is put without the pass's run id, so
\* that the sort key of line 702 falls back to 0.
ErrorEntryNoId(run_id, e) == [run_id |-> 0, error |-> e, results |-> EmptyResults]

\* The dict a worker puts on the queue when the pass raised (676).
ErrorEntry(run_id, e) == [run_id |-> run_id, error |-> e, results |-> EmptyResults]

\* The key of the final sort, line 702: x.get('run_id', 0).
SortKey(x) == x.run_id

\* Insert x into the sorted sequence s after every element whose key is <= x's
\* (sorted() is stable).
RECURSIVE InsertSorted(_, _)
InsertSorted(s, x) ==
    IF s = <<>> THEN <<x>>
    ELSE IF SortKey(Head(s)) <= SortKey(x)
         THEN <<Head(s)>> \o InsertSorted(Tail(s), x)
         ELSE <<x>> \o s

\* Mutant of Sorted: the list is returned in queue order.
SortedQueueOrder(s) == s

\* sorted(all_results, key=lambda x: x.get('run_id', 0)), line 702.
RECURSIVE Sorted(_)
Sorted(s) ==
    IF s = <<>> THEN <<>>
    ELSE InsertSorted(Sorted(SubSeq(s, 1, Len(s) - 1)), s[Len(s)])

VARIABLES
    num_runs,        \* argument num_runs of run_multiple_tests
    parallel,        \* argument parallel of run_multiple_tests
    remaining_runs,  \* list of run ids not yet put in a batch
    current_batch,   \* the batch being started / joined
    threads,         \* threads started for the current batch (their run ids)
    mpc,             \* position of the scheduler (main thread)
    results_queue,   \* queue.Queue shared by the workers
    all_results,     \* list collected from the queue
    ret,             \* value returned by run_multiple_tests
    wpc,             \* wpc[r]: position of the worker thread of pass r
    results,         \* results[r]: the dict `results` of pass r
    werr,            \* werr[r]: the exception caught by worker r, if any
    failures,        \* number of sub-test calls so far that returned None or raised
    batches          \* history: the batches created so far, in order

schedVars == <<num_runs, parallel, remaining_runs, current_batch, threads, mpc,
               results_queue, all_results, ret, wpc, results, werr, failures,
               batches>>

VARIABLES
    table,      \* IPERF3_SERVERS: table[h] is the number of ports of host h
    connMemo,   \* connMemo[<<h, p>>]: outcome of test_server_connectivity
    udpMemo,    \* udpMemo[<<h, p>>]: outcome of test_udp_support
    selPc,      \* position of select_best_server
    selHost,    \* loop variable `server` (index in the table's order)
    selPort,    \* loop variable `port` (index in the host's port list)
    probed1,    \* history: pairs probed by the first pass
    probed2,    \* history: pairs probed by the second pass
    selMsg,     \* which "Selected"/"fallback" message was printed
    selRet      \* value returned by select_best_server

selVars == <<table, connMemo, udpMemo, selPc, selHost, selPort, probed1,
             probed2, selMsg, selRet>>

VARIABLES
    system,     \* platform.system().lower() as mtu_test sees it
    mtuS,       \* the path: the probe succeeds exactly for sizes <= mtuS
    mtuPc,      \* position of mtu_test
    low,        \* local `low`
    high,       \* local `high`
    mtu,        \* local `mtu`: <<>> is None, <<v>> is the integer v
    mtuProbes,  \* history: the payload sizes probed, in order
    mtuRet      \* value returned by mtu_test (as `mtu`)

mtuVars == <<system, mtuS, mtuPc, low, high, mtu, mtuProbes, mtuRet>>

coreVars == <<schedVars, selVars, mtuVars>>

VARIABLES
    bbPc,          \* position of bufferbloat_test
    base_avg,      \* local `base_avg`
    upload_avg,    \* results["upload_avg"]: <<>> is None, <<v>> is the number v
    download_avg,  \* results["download_avg"]: <<>> is None, <<v>> is the number v
    transfers,     \* history: the iperf3 transfers launched, in order
    bbRet          \* value returned by bufferbloat_test: <<>> is None, <<d>> the dict d

VARIABLES
    base_empty     \* history: the baseline window had no reply (`not base`)

bbVars == <<bbPc, base_avg, upload_avg, download_avg, transfers, bbRet,
            base_empty>>

VARIABLES
    jitOut,   \* what the iperf3 UDP run of jitter_test produced
    jitPc,    \* position of jitter_test
    jitRet    \* value returned by jitter_test: <<>> is None, <<d>> the dict d

jitVars == <<jitOut, jitPc, jitRet>>

VARIABLES
    summary_results, \* argument all_results of display_statistical_summary
    aggPc,           \* position of display_statistical_summary
    report           \* <<>> before the summary, <<r>> with r what it shows

aggVars == <<summary_results, aggPc, report>>

VARIABLES
    final_results,   \* argument results of display_final_summary
    fsPc,            \* position of display_final_summary
    problems,        \* the PROBLEM lines printed
    verdict          \* the closing line printed, "none" before it

fsVars == <<final_results, fsPc, problems, verdict>>

VARIABLES
    log_file,     \* the writes received by the log file, in order
    logResults,   \* per pass, the sub-tests whose result is truthy
    logPos        \* per pass, the next write of its log_test_results call

logVars == <<log_file, logResults, logPos>>

VARIABLES
    hangs,     \* the external calls that never return on their own
    probePc,   \* index in ProbeCalls of the call the pass is in
    cut_off    \* the calls that were ended by their timeout

probeVars == <<hangs, probePc, cut_off>>

VARIABLES
    missing,      \* the libraries that are not installed
    args_runs,    \* --runs
    args_quick,   \* --quick
    mainPc,       \* position of the program
    mainTest,     \* index in Tests of the next sub-test of the single run
    mainLeft,     \* passes still to run in multiple-run mode
    started,      \* a sub-test has been started
    faulted,      \* the sub-test whose fault ended the program, or "none"
    exit_code     \* <<>> while the program runs, <<n>> once it has ended

mainVars == <<missing, args_runs, args_quick, mainPc, mainTest, mainLeft,
              started, faulted, exit_code>>

VARIABLES
    olPhase,   \* the load phase bufferbloat_test is in: "upload", "download"
    olPc,      \* position of the main thread in run_load_and_ping
    th,        \* per phase, the sampler thread: "idle", "running", "finished"
    proc,      \* per phase, the iperf3 child: "idle", "running", "exited", "failed"
    loaded,    \* per phase, the number of samples in the list `loaded`
    joined,    \* per phase, th.join() has returned
    pings      \* per phase, up_ping / down_ping: <<>> before the return of
               \* run_load_and_ping, <<k>> a list of k samples

olVars == <<olPhase, olPc, th, proc, loaded, joined, pings>>

VARIABLES
    req_runs,            \* args.runs
    req_parallel,        \* args.parallel
    effective_parallel,  \* the value main passes to run_multiple_tests
    pending,             \* remaining_runs of the batching loop
    to_start,            \* passes of the current batch not yet started
    active,              \* the passes running at this moment
    ccPc                 \* position of main and of the batching loop

ccVars == <<req_runs, req_parallel, effective_parallel, pending, to_start,
            active, ccPc>>

VARIABLES
    succeeded   \* history: the payload sizes whose ping returned code 0

anyVars == <<succeeded>>

VARIABLES
    mtr_out,        \* what running mtr gave: its kind and its report lines
    mtrPc,          \* index of the next report line of mtr_test, 0 once returned
    mtr_hops,       \* the list `hops` of mtr_test
    hop_flags,      \* per element of mtr_hops, the flags printed with its line
    problem_hops,   \* the number of entries of the list `problem_hops`
    mtrRet          \* value returned by mtr_test: <<>> is None, <<l>> the list l

mtrVars == <<mtr_out, mtrPc, mtr_hops, hop_flags, problem_hops, mtrRet>>

VARIABLES
    named,          \* args.iperf3_server: "listed" (a key of the table), "custom"
    exPc,           \* position of main's server choice
    exPort,         \* loop variable `port` of line 584 (index in the port list)
    working_port,   \* local `working_port`: <<>> is None, <<p>> the port p
    udp_support,    \* local `udp_support`
    iperf_port      \* local `iperf_port`: <<>> before it is assigned

exVars == <<named, exPc, exPort, working_port, udp_support, iperf_port>>

extVars == <<bbVars, jitVars, aggVars, fsVars, logVars, probeVars, mainVars,
             olVars, ccVars, anyVars, mtrVars, exVars>>

vars == <<coreVars, extVars>>

Runs == 1..num_runs

(***************************************************************************)
(* run_multiple_tests, lines 662-702.                                      *)
(***************************************************************************)
SchedInit(n, p) ==
    /\ num_runs = n
    /\ parallel = p
    /\ remaining_runs = RangeList(n)
    /\ current_batch = <<>>
    /\ threads = <<>>
    /\ mpc = "while"
    /\ results_queue = <<>>
    /\ all_results = <<>>
    /\ ret = <<>>
    /\ wpc = [r \in 1..n |-> "idle"]
    /\ results = [r \in 1..n |-> EmptyResults]
    /\ werr = [r \in 1..n |-> NoError]
    /\ failures = 0
    /\ batches = <<>>

\* The values of `parallel` the command line accepts (type=int, no check,
\* lines 536-537) in the model: negative, zero and positive.
ParallelValues == -2..MaxParallel

\* Lines 681-685: the loop test and the creation of the next batch.  The
\* record of batches is capped: the loop is not followed beyond MaxRuns + 1
\* batches, which only a loop that fails to shrink the list reaches.
NextBatch ==
    /\ mpc = "while"
    /\ Len(batches) <= MaxRuns
    /\ IF remaining_runs # <<>>
       THEN LET batch_size == Min(parallel, Len(remaining_runs))
            IN /\ current_batch' = PySliceTo(remaining_runs, batch_size)
               /\ remaining_runs' = PySliceFrom(remaining_runs, batch_size)
               /\ batches' = Append(batches, PySliceTo(remaining_runs, batch_size))
               /\ threads' = <<>>
               /\ mpc' = "start"
       ELSE /\ mpc' = "collect"
            /\ UNCHANGED <<current_batch, remaining_runs, batches, threads>>
    /\ UNCHANGED <<num_runs, parallel, results_queue, all_results, ret, wpc,
                   results, werr, failures>>
    /\ UNCHANGED <<selVars, mtuVars>>
    /\ UNCHANGED extVars

\* Lines 689-692: start the thread of the next run id of the batch; the new
\* thread stands at the first statement of run_single_test.
StartThread ==
    /\ mpc = "start"
    /\ Len(threads) < Len(current_batch)
    /\ LET run_id == current_batch[Len(threads) + 1]
       IN /\ wpc' = [wpc EXCEPT ![run_id] = Tests[1]]
          /\ threads' = Append(threads, run_id)
    /\ UNCHANGED <<num_runs, parallel, remaining_runs, current_batch, mpc,
                   results_queue, all_results, ret, results, werr, failures, batches>>
    /\ UNCHANGED <<selVars, mtuVars>>
    /\ UNCHANGED extVars

\* End of the for loop of line 689.
StartDone ==
    /\ mpc = "start"
    /\ Len(threads) = Len(current_batch)
    /\ mpc' = "join"
    /\ UNCHANGED <<num_runs, parallel, remaining_runs, current_batch, threads,
                   results_queue, all_results, ret, wpc, results, werr, failures, batches>>
    /\ UNCHANGED <<selVars, mtuVars>>
    /\ UNCHANGED extVars

\* Mutant of JoinThread: the scheduler does not wait for the thread to end.
JoinThreadNoWait ==
    /\ mpc = "join"
    /\ threads # <<>>
    /\ threads' = Tail(threads)
    /\ UNCHANGED <<num_runs, parallel, remaining_runs, current_batch, mpc,
                   results_queue, all_results, ret, wpc, results, werr, failures, batches>>
    /\ UNCHANGED <<selVars, mtuVars>>
    /\ UNCHANGED extVars

\* Lines 695-696: thread.join() returns when that thread has ended; the
\* joined threads are dropped from the front of `threads`.
JoinThread ==
    /\ mpc = "join"
    /\ threads # <<>>
    /\ wpc[Head(threads)] = "done"
    /\ threads' = Tail(threads)
    /\ UNCHANGED <<num_runs, parallel, remaining_runs, current_batch, mpc,
                   results_queue, all_results, ret, wpc, results, werr, failures, batches>>
    /\ UNCHANGED <<selVars, mtuVars>>
    /\ UNCHANGED extVars

\* End of the for loop of line 695: back to the while test.
JoinDone ==
    /\ mpc = "join"
    /\ threads = <<>>
    /\ mpc' = "while"
    /\ UNCHANGED <<num_runs, parallel, remaining_runs, current_batch, threads,
                   results_queue, all_results, ret, wpc, results, werr, failures, batches>>
    /\ UNCHANGED <<selVars, mtuVars>>
    /\ UNCHANGED extVars

\* Lines 699-700: move one entry from the queue to all_results.
Collect ==
    /\ mpc = "collect"
    /\ results_queue # <<>>
    /\ all_results' = Append(all_results, Head(results_queue))
    /\ results_queue' = Tail(results_queue)
    /\ UNCHANGED <<num_runs, parallel, remaining_runs, current_batch, threads,
                   mpc, ret, wpc, results, werr, failures, batches>>
    /\ UNCHANGED <<selVars, mtuVars>>
    /\ UNCHANGED extVars

\* Line 702: the queue is empty; return the sorted list.
Return ==
    /\ mpc = "collect"
    /\ results_queue = <<>>
    /\ ret' = Sorted(all_results)
    /\ mpc' = "done"
    /\ UNCHANGED <<num_runs, parallel, remaining_runs, current_batch, threads,
                   results_queue, all_results, wpc, results, werr, failures, batches>>
    /\ UNCHANGED <<selVars, mtuVars>>
    /\ UNCHANGED extVars

(***************************************************************************)
(* run_test_worker, lines 667-676, running run_single_test, lines 645-659. *)
(***************************************************************************)
\* One sub-test call of run_single_test (lines 649-654) in worker r: its
\* result is stored under its key, or its exception leaves run_single_test
\* and is caught at line 674.
SubTest(r) ==
    /\ wpc[r] \in TestNames
    /\ \E o \in Outcomes(wpc[r]) :
         /\ o # "val" => failures < MaxFailures
         /\ failures' = IF o = "val" THEN failures ELSE failures + 1
         /\ IF o = "raise"
            THEN /\ wpc' = [wpc EXCEPT ![r] = "except"]
                 /\ werr' = [werr EXCEPT ![r] = wpc[r]]
                 /\ UNCHANGED results
            ELSE /\ results' = [results EXCEPT ![r][wpc[r]] = o]
                 /\ wpc' = [wpc EXCEPT ![r] = AfterTest(wpc[r])]
                 /\ UNCHANGED werr
    /\ UNCHANGED <<num_runs, parallel, remaining_runs, current_batch, threads,
                   mpc, results_queue, all_results, ret, batches>>
    /\ UNCHANGED <<selVars, mtuVars>>
    /\ UNCHANGED extVars

\* Lines 671-673: tag the results with run_id and put them on the queue.
PutResult(r) ==
    /\ wpc[r] = "put"
    /\ results_queue' = Append(results_queue, ResultEntry(r, results[r]))
    /\ wpc' = [wpc EXCEPT ![r] = "done"]
    /\ UNCHANGED <<num_runs, parallel, remaining_runs, current_batch, threads,
                   mpc, all_results, ret, results, werr, failures, batches>>
    /\ UNCHANGED <<selVars, mtuVars>>
    /\ UNCHANGED extVars

\* Lines 674-676: the handler puts an error entry tagged with run_id.
PutError(r) ==
    /\ wpc[r] = "except"
    /\ results_queue' = Append(results_queue, ErrorEntry(r, werr[r]))
    /\ wpc' = [wpc EXCEPT ![r] = "done"]
    /\ UNCHANGED <<num_runs, parallel, remaining_runs, current_batch, threads,
                   mpc, all_results, ret, results, werr, failures, batches>>
    /\ UNCHANGED <<selVars, mtuVars>>
    /\ UNCHANGED extVars

Worker(r) == SubTest(r) \/ PutResult(r) \/ PutError(r)

(***************************************************************************)
(* select_best_server, lines 113-171.                                      *)
(*                                                                         *)
(* A host is its index in the insertion order of IPERF3_SERVERS and a port *)
(* its index in the host's "ports" list.  The outcome of a probe of a pair *)
(* is drawn when the pair is first probed and kept from then on: a fixed   *)
(* assignment of outcomes to pairs.                                        *)
(***************************************************************************)
Hosts == 1..Len(table)

AllPairs == {<<h, p>> : h \in 1..MaxHosts, p \in 1..MaxPorts}

\* The (host, port) pairs of the table.
Pairs == {pr \in AllPairs : pr[1] \in Hosts /\ pr[2] <= table[pr[1]]}

\* Configuration order: hosts in table order, ports in list order.
Before(a, b) == a[1] < b[1] \/ (a[1] = b[1] /\ a[2] < b[2])

\* The three messages of lines 139, 162 and 170.
Full == "TCP + UDP support"
Partial == "TCP only"
Fallback == "fallback"

\* Outcomes a probe of pair pr may have, given what earlier probes returned.
ProbeOutcomes(memo, pr) ==
    IF memo[pr] = "unknown" THEN {"yes", "no"} ELSE {memo[pr]}

\* Mutant of FallbackPair: the loop variables left by the second pass are
\* returned instead of the first configured pair.
FallbackPairLoopVars == <<selHost, selPort>>

\* Lines 168-169: list(IPERF3_SERVERS.keys())[0] and its ["ports"][0].
FallbackPair == <<1, 1>>

\* The idle state of the selector when it is not the operation under study.
SelIdle ==
    /\ table = <<1>>
    /\ connMemo = [pr \in AllPairs |-> "unknown"]
    /\ udpMemo = [pr \in AllPairs |-> "unknown"]
    /\ selPc = "off"
    /\ selHost = 1
    /\ selPort = 1
    /\ probed1 = {}
    /\ probed2 = {}
    /\ selMsg = "none"
    /\ selRet = <<>>

\* Entry of select_best_server with a table of the given shape.
SelInit(tbl) ==
    /\ table = tbl
    /\ connMemo = [pr \in AllPairs |-> "unknown"]
    /\ udpMemo = [pr \in AllPairs |-> "unknown"]
    /\ selPc = "pass1"
    /\ selHost = 1
    /\ selPort = 1
    /\ probed1 = {}
    /\ probed2 = {}
    /\ selMsg = "none"
    /\ selRet = <<>>

\* The loop headers of lines 121/128 (and 152/158): the next port of the
\* host, else the first port of the next host, else the loops are over.
LastPair == selHost = Len(table) /\ selPort = table[selHost]

Advance ==
    IF selPort < table[selHost]
    THEN selPort' = selPort + 1 /\ UNCHANGED selHost
    ELSE selHost' = selHost + 1 /\ selPort' = 1

\* Mutant of Pass1Probe: the first pass selects a pair as soon as the
\* connectivity probe succeeds, without the UDP probe.
Pass1ProbeTcpOnly ==
    /\ selPc = "pass1"
    /\ LET pr == <<selHost, selPort>>
       IN /\ probed1' = probed1 \cup {pr}
          /\ \E c \in ProbeOutcomes(connMemo, pr) :
               /\ connMemo' = [connMemo EXCEPT ![pr] = c]
               /\ IF c = "yes"
                  THEN /\ selRet' = pr
                       /\ selMsg' = Full
                       /\ selPc' = "done"
                       /\ UNCHANGED <<selHost, selPort>>
                  ELSE /\ UNCHANGED <<selRet, selMsg>>
                       /\ IF LastPair
                          THEN /\ selPc' = "pass2"
                               /\ selHost' = 1
                               /\ selPort' = 1
                          ELSE /\ Advance
                               /\ UNCHANGED selPc
    /\ UNCHANGED <<table, udpMemo, probed2>>
    /\ UNCHANGED <<schedVars, mtuVars>>
    /\ UNCHANGED extVars

\* Lines 128-145: one iteration of the first pass: the connectivity probe
\* and, when it succeeds, the UDP probe; return on the first pair passing both.
Pass1Probe ==
    /\ selPc = "pass1"
    /\ LET pr == <<selHost, selPort>>
       IN /\ probed1' = probed1 \cup {pr}
          /\ \E c \in ProbeOutcomes(connMemo, pr) :
               /\ connMemo' = [connMemo EXCEPT ![pr] = c]
               /\ IF c = "yes"
                  THEN \E u \in ProbeOutcomes(udpMemo, pr) :
                         /\ udpMemo' = [udpMemo EXCEPT ![pr] = u]
                         /\ IF u = "yes"
                            THEN /\ selRet' = pr
                                 /\ selMsg' = Full
                                 /\ selPc' = "done"
                                 /\ UNCHANGED <<selHost, selPort>>
                            ELSE /\ UNCHANGED <<selRet, selMsg>>
                                 /\ IF LastPair
                                    THEN /\ selPc' = "pass2"
                                         /\ selHost' = 1
                                         /\ selPort' = 1
                                    ELSE /\ Advance
                                         /\ UNCHANGED selPc
                  ELSE /\ UNCHANGED <<udpMemo, selRet, selMsg>>
                       /\ IF LastPair
                          THEN /\ selPc' = "pass2"
                               /\ selHost' = 1
                               /\ selPort' = 1
                          ELSE /\ Advance
                               /\ UNCHANGED selPc
    /\ UNCHANGED <<table, probed2>>
    /\ UNCHANGED <<schedVars, mtuVars>>
    /\ UNCHANGED extVars

\* Mutant of Pass2Probe: the second pass selects the pair it probes whatever
\* the connectivity probe returned.
Pass2ProbeAny ==
    /\ selPc = "pass2"
    /\ LET pr == <<selHost, selPort>>
       IN /\ probed2' = probed2 \cup {pr}
          /\ \E c \in ProbeOutcomes(connMemo, pr) :
               /\ connMemo' = [connMemo EXCEPT ![pr] = c]
               /\ selRet' = pr
               /\ selMsg' = Partial
               /\ selPc' = "done"
               /\ UNCHANGED <<selHost, selPort>>
    /\ UNCHANGED <<table, udpMemo, probed1>>
    /\ UNCHANGED <<schedVars, mtuVars>>
    /\ UNCHANGED extVars

\* Lines 158-165: one iteration of the second pass: the connectivity probe
\* alone; return on the first pair passing it.
Pass2Probe ==
    /\ selPc = "pass2"
    /\ LET pr == <<selHost, selPort>>
       IN /\ probed2' = probed2 \cup {pr}
          /\ \E c \in ProbeOutcomes(connMemo, pr) :
               /\ connMemo' = [connMemo EXCEPT ![pr] = c]
               /\ IF c = "yes"
                  THEN /\ selRet' = pr
                       /\ selMsg' = Partial
                       /\ selPc' = "done"
                       /\ UNCHANGED <<selHost, selPort>>
                  ELSE /\ UNCHANGED <<selRet, selMsg>>
                       /\ IF LastPair
                          THEN /\ selPc' = "fallback"
                               /\ UNCHANGED <<selHost, selPort>>
                          ELSE /\ Advance
                               /\ UNCHANGED selPc
    /\ UNCHANGED <<table, udpMemo, probed1>>
    /\ UNCHANGED <<schedVars, mtuVars>>
    /\ UNCHANGED extVars

\* Lines 167-171: nothing responded; return the first configured pair.
ReturnFallback ==
    /\ selPc = "fallback"
    /\ selRet' = FallbackPair
    /\ selMsg' = Fallback
    /\ selPc' = "done"
    /\ UNCHANGED <<table, connMemo, udpMemo, selHost, selPort, probed1, probed2>>
    /\ UNCHANGED <<schedVars, mtuVars>>
    /\ UNCHANGED extVars

(***************************************************************************)
(* mtu_test, lines 412-450.                                                *)
(***************************************************************************)
\* Line 432: the largest payload size tried.
MtuHigh == 1472
\* Line 442: IP + ICMP overhead added to the payload size.
Overhead == 28

Systems == {"linux", "windows", "darwin"}

\* Lines 419-429: the platforms on which the search runs.
Supported(sys) == sys \in {"linux", "windows"}

\* Line 440-441: res.returncode == 0 for a ping of payload size `size`.
ProbeOk(size) == size <= mtuS

\* Mutant of LoopCond: the loop stops when the bounds meet.
LoopCondStrict(lo, hi) == lo < hi

\* Line 434: the loop condition.
LoopCond(lo, hi) == lo <= hi

\* The idle state of mtu_test when it is not the operation under study.
MtuIdle ==
    /\ system = "linux"
    /\ mtuS = 0
    /\ mtuPc = "off"
    /\ low = 0
    /\ high = 0
    /\ mtu = <<>>
    /\ mtuProbes = <<>>
    /\ mtuRet = <<>>

\* Entry of mtu_test on platform sys over a path of threshold s (s = -1: the
\* probe fails for every size).
MtuInit(sys, s) ==
    /\ system = sys
    /\ mtuS = s
    /\ mtuPc = "start"
    /\ low = 0
    /\ high = 0
    /\ mtu = <<>>
    /\ mtuProbes = <<>>
    /\ mtuRet = <<>>

\* Lines 418-433: the platform test, then the initial bounds.
MtuStart ==
    /\ mtuPc = "start"
    /\ IF Supported(system)
       THEN /\ low' = 0
            /\ high' = MtuHigh
            /\ mtu' = <<>>
            /\ mtuPc' = "loop"
            /\ UNCHANGED mtuRet
       ELSE /\ mtuRet' = <<>>
            /\ mtuPc' = "done"
            /\ UNCHANGED <<low, high, mtu>>
    /\ UNCHANGED <<system, mtuS, mtuProbes>>
    /\ UNCHANGED <<schedVars, selVars>>
    /\ UNCHANGED extVars

\* Lines 434-445: one iteration of the binary search.
MtuProbe ==
    /\ mtuPc = "loop"
    /\ LoopCond(low, high)
    /\ LET mid == (low + high) \div 2
       IN /\ mtuProbes' = Append(mtuProbes, mid)
          /\ IF ProbeOk(mid)
             THEN /\ mtu' = <<mid + Overhead>>
                  /\ low' = mid + 1
                  /\ UNCHANGED high
             ELSE /\ high' = mid - 1
                  /\ UNCHANGED <<mtu, low>>
    /\ UNCHANGED <<system, mtuS, mtuPc, mtuRet>>
    /\ UNCHANGED <<schedVars, selVars>>
    /\ UNCHANGED extVars

\* Lines 446-450: the bounds crossed; return mtu.
MtuReturn ==
    /\ mtuPc = "loop"
    /\ ~LoopCond(low, high)
    /\ mtuRet' = mtu
    /\ mtuPc' = "done"
    /\ UNCHANGED <<system, mtuS, low, high, mtu, mtuProbes>>
    /\ UNCHANGED <<schedVars, selVars>>
    /\ UNCHANGED extVars

(***************************************************************************)
(* bufferbloat_test, lines 207-287.  Latencies are whole milliseconds.     *)
(***************************************************************************)
\* The mean latencies a window of pings may yield in the model.
LatencyValues == {0, 20, 30, 40, 45, 49, 50, 110, 119, 120, 200}

\* What a window of pings yields: no reply at all (<<>>), or a mean.
WindowMeans == {<<>>} \cup {<<v>> : v \in LatencyValues}

\* Python's `x or d` for x a number or None: d when x is None or 0.
PyOr(x, d) == IF x = <<>> \/ x = <<0>> THEN d ELSE x[1]

\* Mutant of GradeOf: the thresholds are inclusive.
GradeOfInclusive(worst_inc) ==
    IF worst_inc <= 30 THEN "A"
    ELSE IF worst_inc <= 100 THEN "B"
    ELSE "C"

\* Lines 279-284: the grade of the worst latency increase.
GradeOf(worst_inc) ==
    IF worst_inc < 30 THEN "A"
    ELSE IF worst_inc < 100 THEN "B"
    ELSE "C"

\* Lines 276-285: the grade from the baseline and the two loaded means.
Grade(base, up, down) ==
    LET inc_up == PyOr(up, base) - base
        inc_down == PyOr(down, base) - base
    IN GradeOf(Max(inc_up, inc_down))

\* The idle state of bufferbloat_test when it is not the operation under study.
BbIdle ==
    /\ bbPc = "off"
    /\ base_avg = 0
    /\ upload_avg = <<>>
    /\ download_avg = <<>>
    /\ transfers = <<>>
    /\ bbRet = <<>>
    /\ base_empty = FALSE

\* Entry of bufferbloat_test.
BbInit ==
    /\ bbPc = "baseline"
    /\ base_avg = 0
    /\ upload_avg = <<>>
    /\ download_avg = <<>>
    /\ transfers = <<>>
    /\ bbRet = <<>>
    /\ base_empty = FALSE

(***************************************************************************)
(* jitter_test, lines 290-321.                                             *)
(***************************************************************************)
\* The values of the fields of the UDP summary in the model.
JitterValues == {0, 15, 19, 20, 21, 50}
LostValues == {0, 1, 3}
TotalValues == {0, 100}

\* A field of the summary: absent or null (<<>>), or a number.
Field(values) == {<<>>} \cup {<<v>> : v \in values}

\* What the iperf3 run may produce: a non-zero exit (CalledProcessError),
\* output that is not JSON (JSONDecodeError), any other exception (iperf3
\* not installed), or JSON whose end.sum has the three fields or lacks them.
JitterOutputs ==
    {[kind |-> k, jitter_ms |-> <<>>, lost_packets |-> <<>>, packets |-> <<>>] :
        k \in {"exit_nonzero", "bad_json", "exception"}}
    \cup
    {[kind |-> "json", jitter_ms |-> j, lost_packets |-> l, packets |-> t] :
        j \in Field(JitterValues), l \in Field(LostValues), t \in Field(TotalValues)}

\* Mutant of JitterStatus: either condition suffices for OK.
JitterStatusEither(jitter, lost) == IF jitter < 20 \/ lost = 0 THEN "OK" ELSE "WARN"

\* Line 310: the status of a complete measurement.
JitterStatus(jitter, lost) == IF jitter < 20 /\ lost = 0 THEN "OK" ELSE "WARN"

\* The idle state of jitter_test when it is not the operation under study.
JitIdle ==
    /\ jitOut = [kind |-> "exception", jitter_ms |-> <<>>, lost_packets |-> <<>>,
                 packets |-> <<>>]
    /\ jitPc = "off"
    /\ jitRet = <<>>

\* Entry of jitter_test, with the output the iperf3 run is going to produce.
JitInit(out) ==
    /\ jitOut = out
    /\ jitPc = "start"
    /\ jitRet = <<>>

(***************************************************************************)
(* display_statistical_summary and the analyze_*_stats functions,          *)
(* lines 720-874.                                                          *)
(***************************************************************************)
\* At most MaxPasses pass results are aggregated, over routes whose hop
\* indices are in 1..MaxHops.
MaxPasses == 2
MaxHops == 2

\* The resolvers analyze_dns_stats keeps a list for (line 818).
Resolvers == {"1.1.1.1", "8.8.8.8"}

\* Python truthiness of a number that may be None: None and 0 are false.
Truthy(x) == x # <<>> /\ x # <<0>>

\* The dict bufferbloat_test returns (line 287).
BbDict(base, up, down) ==
    [baseline_avg |-> <<base>>, upload_avg |-> up, download_avg |-> down,
     grade |-> Grade(base, up, down)]

\* The dict jitter_test returns (line 312).
JitDict(jitter, lost, total) ==
    [jitter_ms |-> <<jitter>>, lost |-> <<lost>>, total |-> <<total>>,
     status |-> JitterStatus(jitter, lost)]

\* The values of result['bufferbloat'] in the model: None or a dict.
BbResults ==
    {<<>>} \cup {<<BbDict(b, u, d)>> :
                    b \in {0, 20}, u \in {<<>>, <<50>>}, d \in {<<>>, <<30>>}}

\* The values of result['jitter'] in the model: None or a dict.
JitResults ==
    {<<>>} \cup {<<JitDict(j, l, t)>> : j \in {0, 15}, l \in {0, 3}, t \in {0, 100}}

\* The values of result['dns'] in the model: per resolver a time or None.
DnsResults == {<<d>> : d \in [Resolvers -> {<<>>, <<0>>, <<25>>}]}

\* The (loss, avg, stdev) triples of a hop record in the model.
HopStats == {<<0, 10, 1>>, <<10, 30, 15>>}

\* The routes over the hop indices in hs, in increasing order of the index
\* (mtr prints the hops in order; a line that does not parse is left out,
\* lines 353-354).
RECURSIVE RoutesOver(_)
RoutesOver(hs) ==
    IF hs = {} THEN {<<>>}
    ELSE LET h == CHOOSE x \in hs : \A y \in hs : x >= y
         IN {Append(r, <<h, s[1], s[2], s[3]>>) :
                r \in RoutesOver(hs \ {h}), s \in HopStats}

\* The values of result['mtr'] in the model; None and [] are both <<>>.
MtrResults == UNION {RoutesOver(hs) : hs \in SUBSET (1..MaxHops)}

\* A pass result without the key 'error' (run_single_test, 645-659).
PassResult(b, j, d, m) ==
    [error |-> FALSE, bufferbloat |-> b, jitter |-> j, dns |-> d, mtr |-> m]

\* The entry of a pass that raised (line 676): it has the key 'error' and
\* none of the sub-test keys.
ErrorPass ==
    [error |-> TRUE, bufferbloat |-> <<>>, jitter |-> <<>>, dns |-> <<>>,
     mtr |-> <<>>]

\* dns_test's dict when both resolvers failed (lines 471-473).
NoDns == <<[r \in Resolvers |-> <<>>]>>

\* A pass in which every sub-test produced data.
FullPass ==
    PassResult(<<BbDict(20, <<50>>, <<30>>)>>, <<JitDict(15, 3, 100)>>,
               <<[r \in Resolvers |-> <<25>>]>>, <<<<1, 10, 30, 15>>>>)

\* The pass results of the model: an error entry, a full pass, and passes
\* in which one sub-test varies while the others produced nothing.
SamplePasses ==
    {ErrorPass, FullPass}
    \cup {PassResult(b, <<>>, NoDns, <<>>) : b \in BbResults}
    \cup {PassResult(<<>>, j, NoDns, <<>>) : j \in JitResults}
    \cup {PassResult(<<>>, <<>>, d, <<>>) : d \in DnsResults}
    \cup {PassResult(<<>>, <<>>, NoDns, m) : m \in MtrResults}

\* The lists of at most n pass results.
PassLists(n) == UNION {[1..k -> SamplePasses] : k \in 0..n}

\* The conditions under which the loops at 769-779, 799-806 and 820-825
\* append a pass's value to the list of metric m.
Appends(r, m) ==
    CASE m = "baseline" ->
            r.bufferbloat # <<>> /\ Truthy(r.bufferbloat[1].baseline_avg)
      [] m = "upload" ->
            /\ r.bufferbloat # <<>>
            /\ Truthy(r.bufferbloat[1].upload_avg)
            /\ Truthy(r.bufferbloat[1].baseline_avg)
      [] m = "download" ->
            /\ r.bufferbloat # <<>>
            /\ Truthy(r.bufferbloat[1].download_avg)
            /\ Truthy(r.bufferbloat[1].baseline_avg)
      [] m = "grade" -> r.bufferbloat # <<>>
      [] m = "jitter" -> r.jitter # <<>> /\ Truthy(r.jitter[1].jitter_ms)
      [] m = "loss_rate" ->
            /\ r.jitter # <<>>
            /\ r.jitter[1].lost # <<>>
            /\ Truthy(r.jitter[1].total)
      [] m \in Resolvers -> r.dns # <<>> /\ r.dns[1][m] # <<>>

\* The value appended for metric m; (lost / total) * 100 is exact for the
\* totals of the model.
Appended(r, m) ==
    CASE m = "baseline" -> r.bufferbloat[1].baseline_avg[1]
      [] m = "upload" ->
            r.bufferbloat[1].upload_avg[1] - r.bufferbloat[1].baseline_avg[1]
      [] m = "download" ->
            r.bufferbloat[1].download_avg[1] - r.bufferbloat[1].baseline_avg[1]
      [] m = "grade" -> r.bufferbloat[1].grade
      [] m = "jitter" -> r.jitter[1].jitter_ms[1]
      [] m = "loss_rate" -> (r.jitter[1].lost[1] * 100) \div r.jitter[1].total[1]
      [] m \in Resolvers -> r.dns[1][m][1]

\* The list of metric m built by the loop over the results rs.
RECURSIVE Samples(_, _)
Samples(rs, m) ==
    IF rs = <<>> THEN <<>>
    ELSE LET front == Samples(SubSeq(rs, 1, Len(rs) - 1), m)
             r == rs[Len(rs)]
         IN IF Appends(r, m) THEN Append(front, Appended(r, m)) ELSE front

\* Line 727: the results without the key 'error'.
ValidResults(rs) == SelectSeq(rs, LAMBDA r : ~r.error)

\* Line 728: the results with the key 'error'.
FailedRuns(rs) == SelectSeq(rs, LAMBDA r : r.error)

\* Python's min, max and sum of a non-empty list of numbers.
RECURSIVE MinOf(_)
MinOf(s) == IF Len(s) = 1 THEN s[1] ELSE Min(s[1], MinOf(Tail(s)))

RECURSIVE MaxOf(_)
MaxOf(s) == IF Len(s) = 1 THEN s[1] ELSE Max(s[1], MaxOf(Tail(s)))

RECURSIVE SumOf(_)
SumOf(s) == IF s = <<>> THEN 0 ELSE s[1] + SumOf(Tail(s))

\* Mutant of MeanOf: the sum is not divided by the number of samples.
MeanOfUndivided(s) == [sum |-> SumOf(s), n |-> 1]

\* statistics.mean of a non-empty list, kept as the fraction sum / n.
MeanOf(s) == [sum |-> SumOf(s), n |-> Len(s)]

\* Two means are the same number.
SameMean(a, b) == a.sum * b.n = b.sum * a.n

\* The line printed for a list of samples (782-787, 809-812, 828-830):
\* nothing (<<>>) for an empty list, else its min, max and mean.
StatLine(s) ==
    IF s = <<>> THEN <<>>
    ELSE <<[min |-> MinOf(s), max |-> MaxOf(s), mean |-> MeanOf(s)]>>

\* The scalar metrics with a min/max/mean line: baseline_rtts,
\* upload_increases, download_increases (764-766), jitters, loss_rates
\* (796-797) and dns_times of each resolver (818).
Metrics == {"baseline", "upload", "download", "jitter", "loss_rate"} \cup Resolvers

\* Lines 841-847: all hop records of the passes, in the order of the loops.
RECURSIVE HopRecordsOf(_)
HopRecordsOf(rs) ==
    IF rs = <<>> THEN <<>> ELSE Head(rs).mtr \o HopRecordsOf(Tail(rs))

\* The keys of the dict all_hops in the order of their insertion (844-845).
RECURSIVE HopKeys(_)
HopKeys(recs) ==
    IF recs = <<>> THEN <<>>
    ELSE LET ks == HopKeys(SubSeq(recs, 1, Len(recs) - 1))
             h == recs[Len(recs)][1]
         IN IF \E i \in 1..Len(ks) : ks[i] = h THEN ks ELSE Append(ks, h)

\* all_hops[hop] (846): the (loss, avg, stdev) triples of one hop.
HopData(recs, hop) ==
    LET own == SelectSeq(recs, LAMBDA d : d[1] = hop)
    IN [i \in 1..Len(own) |-> <<own[i][2], own[i][3], own[i][4]>>]

\* Mutant of SortedHops: the hops are listed in the order of the dict.
SortedHopsAsInserted(ks) == ks

\* sorted(all_hops.keys()), line 854.
RECURSIVE SortedHops(_)
SortedHops(ks) ==
    IF ks = <<>> THEN <<>>
    ELSE LET m == MinOf(ks)
         IN <<m>> \o SortedHops(SelectSeq(ks, LAMBDA k : k # m))

\* Mutant of HopLine: the aggregate uses the threshold of the live flag.
HopLineUnified(recs, hop) ==
    LET hop_data == HopData(recs, hop)
        losses == [i \in 1..Len(hop_data) |-> hop_data[i][1]]
        rtts == [i \in 1..Len(hop_data) |-> hop_data[i][2]]
        stdevs == [i \in 1..Len(hop_data) |-> hop_data[i][3]]
        max_loss == MaxOf(losses)
        max_stdev == MaxOf(stdevs)
    IN [hop |-> hop, max_loss |-> max_loss, avg_rtt |-> MeanOf(rtts),
        max_stdev |-> max_stdev,
        status |-> (IF max_loss > 0 THEN {"LOSS"} ELSE {})
                   \cup (IF max_stdev > 20 THEN {"JITTER"} ELSE {})]

\* Lines 855-872: the line printed for one hop.
HopLine(recs, hop) ==
    LET hop_data == HopData(recs, hop)
        losses == [i \in 1..Len(hop_data) |-> hop_data[i][1]]
        rtts == [i \in 1..Len(hop_data) |-> hop_data[i][2]]
        stdevs == [i \in 1..Len(hop_data) |-> hop_data[i][3]]
        max_loss == MaxOf(losses)
        max_stdev == MaxOf(stdevs)
    IN [hop |-> hop, max_loss |-> max_loss, avg_rtt |-> MeanOf(rtts),
        max_stdev |-> max_stdev,
        status |-> (IF max_loss > 0 THEN {"LOSS"} ELSE {})
                   \cup (IF max_stdev > 10 THEN {"JITTER"} ELSE {})]

\* analyze_mtr_stats, 834-874: the hop lines in the order they are printed.
MtrLines(rs) ==
    LET recs == HopRecordsOf(rs)
        hops == SortedHops(HopKeys(recs))
    IN [i \in 1..Len(hops) |-> HopLine(recs, hops[i])]

\* The sample lists and printed lines of display_statistical_summary for the
\* results rs (720-759); no analysis when no run succeeded (736-738).
StatisticalSummary(rs) ==
    LET valid == ValidResults(rs)
        lists == [m \in Metrics |-> Samples(valid, m)]
    IN [failed |-> Len(FailedRuns(rs)),
        analyzed |-> Len(ValidResults(rs)),
        samples |-> lists,
        lines |-> [m \in DOMAIN lists |-> StatLine(lists[m])],
        grades |-> Samples(valid, "grade"),
        hops |-> MtrLines(valid)]

\* The idle state of the aggregator when it is not the operation under study.
AggIdle ==
    /\ summary_results = <<>>
    /\ aggPc = "off"
    /\ report = <<>>

\* Entry of display_statistical_summary with the list rs of pass results.
AggInit(rs) ==
    /\ summary_results = rs
    /\ aggPc = "start"
    /\ report = <<>>

(***************************************************************************)
(* display_final_summary, lines 877-908.                                   *)
(***************************************************************************)
\* The results of one pass handed to display_final_summary: per sub-test
\* None (<<>>) or its value.  dns_test always returns its dict.
FinalResults ==
    [bufferbloat : {<<>>, <<BbDict(20, <<45>>, <<30>>)>>,
                    <<BbDict(20, <<110>>, <<40>>)>>, <<BbDict(20, <<200>>, <<>>)>>},
     jitter : {<<>>, <<JitDict(15, 0, 100)>>, <<JitDict(15, 3, 100)>>},
     mtr : {<<>>, <<<<1, 0, 10, 1>>>>, <<<<1, 0, 10, 1>>, <<2, 10, 30, 15>>>>},
     mtu : {<<>>, <<1300>>, <<1400>>, <<1500>>},
     dns : {<<d>> : d \in [Resolvers -> {<<>>, <<25>>, <<250>>}]}]

\* Lines 881-901: the PROBLEM lines printed for the results r; each one
\* sets ok to False.
ProblemsOf(r) ==
    (IF r.bufferbloat # <<>> /\ r.bufferbloat[1].grade \notin {"A", "B"}
        THEN {"bufferbloat"} ELSE {})
    \cup (IF r.jitter # <<>> /\ r.jitter[1].status # "OK" THEN {"jitter"} ELSE {})
    \cup (IF \E i \in 1..Len(r.mtr) : r.mtr[i][2] > 0 THEN {"mtr"} ELSE {})
    \cup (IF Truthy(r.mtu) /\ r.mtu[1] < 1400 THEN {"mtu"} ELSE {})
    \cup (IF r.dns # <<>>
             /\ \E x \in Resolvers : r.dns[1][x] = <<>> \/ r.dns[1][x][1] > 200
          THEN {"dns"} ELSE {})

\* The idle state of display_final_summary when it is not under study.
FsIdle ==
    /\ final_results = <<>>
    /\ fsPc = "off"
    /\ problems = {}
    /\ verdict = "none"

\* Entry of display_final_summary with the results r.
FsInit(r) ==
    /\ final_results = <<r>>
    /\ fsPc = "start"
    /\ problems = {}
    /\ verdict = "none"

(***************************************************************************)
(* log_test_results, lines 705-717, called by the passes of one batch      *)
(* (656-657) on the log file they share.                                   *)
(***************************************************************************)
\* The passes of a batch, each in its own thread (688-691).
LogPasses == 1..MaxParallel

\* The sets of sub-tests with a truthy result in the model; dns_test's dict
\* is never empty.
TruthySets == {{"dns"}, {"jitter", "dns"}}

\* Lines 711-714: two writes per truthy result, in the order of the dict.
RECURSIVE EntryWrites(_, _)
EntryWrites(truthy, i) ==
    IF i > Len(Tests) THEN <<>>
    ELSE (IF Tests[i] \in truthy THEN <<<<"name", Tests[i]>>, <<"json", Tests[i]>>>>
                                 ELSE <<>>)
         \o EntryWrites(truthy, i + 1)

\* The write calls of one log_test_results call, 707-716; the header always
\* carries run_number = 1 (line 657).
BlockWrites(truthy) ==
    <<<<"header", 1>>, <<"timestamp", 0>>>> \o EntryWrites(truthy, 1)
        \o <<<<"separator", 0>>>>

\* The idle state of the log when it is not under study.
LogIdle ==
    /\ log_file = <<>>
    /\ logResults = [p \in LogPasses |-> {}]
    /\ logPos = [p \in LogPasses |-> 0]

\* The passes of a batch reach log_test_results with their results.
LogInit(truthy) ==
    /\ log_file = <<>>
    /\ logResults = truthy
    /\ logPos = [p \in LogPasses |-> 1]

(***************************************************************************)
(* The external calls of one pass (run_single_test, 645-659) and the       *)
(* timeout each is made with.                                              *)
(***************************************************************************)
\* The external calls of a pass in the order it makes them: ping3's ping
\* (198, 234), iperf3 TCP upload and download (246-247), iperf3 UDP (297),
\* mtr (339), the DF ping of mtu_test (440), the resolver query (467) and
\* the ipify request (484).
ProbeCalls ==
    <<"ping", "iperf3_upload", "iperf3_download", "iperf3_udp", "mtr",
      "mtu_ping", "dns_resolve", "public_ip">>

\* The timeout, in seconds, the call is made with; <<>> when the code
\* passes none: ping(target, timeout=1), res.lifetime = timeout (1.0),
\* requests.get(..., timeout=3); proc.wait(), check_output(cmd, ...) and
\* subprocess.run(cmd, ...) are called without one.
TimeoutOf(call) ==
    CASE call = "ping" -> <<1>>
      [] call = "dns_resolve" -> <<1>>
      [] call = "public_ip" -> <<3>>
      [] OTHER -> <<>>

\* The idle state of the pass's probes when they are not under study.
ProbeIdle ==
    /\ hangs = {}
    /\ probePc = 0
    /\ cut_off = {}

\* Start of a pass in an environment where the calls in h never return on
\* their own.
ProbeInit(h) ==
    /\ hangs = h
    /\ probePc = 1
    /\ cut_off = {}

(***************************************************************************)
(* The program: the imports of lines 52-73 and main, lines 527-642.        *)
(***************************************************************************)
\* The third-party libraries imported at start-up.
Libraries == {"ping3", "dnspython", "miniupnpc", "requests"}

\* The libraries whose ImportError ends the program with sys.exit(1)
\* (52-62, 69-73); a missing miniupnpc is replaced by None (64-67).
Required == {"ping3", "dnspython", "requests"}

\* The idle state of the program when it is not under study.
MainIdle ==
    /\ missing = {}
    /\ args_runs = 1
    /\ args_quick = FALSE
    /\ mainPc = "off"
    /\ mainTest = 1
    /\ mainLeft = 0
    /\ started = FALSE
    /\ faulted = "none"
    /\ exit_code = <<>>

\* Start of the program with the libraries in m missing and the arguments
\* --runs n and, if q, --quick.
MainInit(m, n, q) ==
    /\ missing = m
    /\ args_runs = n
    /\ args_quick = q
    /\ mainPc = "import"
    /\ mainTest = 1
    /\ mainLeft = 0
    /\ started = FALSE
    /\ faulted = "none"
    /\ exit_code = <<>>

(***************************************************************************)
(* run_load_and_ping, lines 226-251, as bufferbloat_test calls it for the  *)
(* upload (253-262) and the download (264-273).                            *)
(***************************************************************************)
\* The sampler appends at most MaxSamples replies in one window.
MaxSamples == 2

\* The load phases in the order of lines 256 and 267.
Phases == {"upload", "download"}

\* The idle state of the load phases when they are not under study.
OlIdle ==
    /\ olPhase = "upload"
    /\ olPc = "off"
    /\ th = [ph \in Phases |-> "idle"]
    /\ proc = [ph \in Phases |-> "idle"]
    /\ loaded = [ph \in Phases |-> 0]
    /\ joined = [ph \in Phases |-> FALSE]
    /\ pings = [ph \in Phases |-> <<>>]

\* bufferbloat_test has measured its baseline and calls run_load_and_ping
\* for the upload (line 256).
OlInit ==
    /\ olPhase = "upload"
    /\ olPc = "th_start"
    /\ th = [ph \in Phases |-> "idle"]
    /\ proc = [ph \in Phases |-> "idle"]
    /\ loaded = [ph \in Phases |-> 0]
    /\ joined = [ph \in Phases |-> FALSE]
    /\ pings = [ph \in Phases |-> <<>>]

(***************************************************************************)
(* main, lines 620-637, handing args.runs and args.parallel to the         *)
(* batching loop of run_multiple_tests, lines 679-696; a pass is one step  *)
(* from its start to its end.                                              *)
(***************************************************************************)
\* Line 631: the number of runs from which main raises a parallel of 1.
StressRuns == 6

\* The run counts of the model, on both sides of StressRuns.
RunCounts == 0..(StressRuns + 1)

\* The idle state of main's hand-over when it is not under study.
CcIdle ==
    /\ req_runs = 0
    /\ req_parallel = 1
    /\ effective_parallel = 1
    /\ pending = <<>>
    /\ to_start = <<>>
    /\ active = {}
    /\ ccPc = "off"

\* main with --runs n --parallel p, at line 620.
CcInit(n, p) ==
    /\ req_runs = n
    /\ req_parallel = p
    /\ effective_parallel = p
    /\ pending = <<>>
    /\ to_start = <<>>
    /\ active = {}
    /\ ccPc = "main"

(***************************************************************************)
(* mtu_test, lines 431-450, over a path on which the ping of each size     *)
(* succeeds or fails in any way.                                           *)
(***************************************************************************)
\* No ping has succeeded: the state before the search and outside it.
AnyIdle ==
    /\ succeeded = {}

(***************************************************************************)
(* mtr_test, lines 324-409.                                                *)
(***************************************************************************)
\* A line of the report that parses (354-365): hop number h and the columns
\* loss, avg, best, worst, stdev.
HopLineOf(h, loss, stdev, best, worst) ==
    [parses |-> TRUE, hop |-> h, loss |-> loss, avg |-> best, stdev |-> stdev,
     best |-> best, worst |-> worst]

\* A line with fewer than 8 fields or without a leading number (354).
OtherLine ==
    [parses |-> FALSE, hop |-> 0, loss |-> 0, avg |-> 0, stdev |-> 0,
     best |-> 0, worst |-> 0]

\* The lines mtr may print for hop h in the model: every combination of
\* loss, stdev and worst - best on both sides of the thresholds of 380-389,
\* and a line that does not parse.
LinesOfHop(h) ==
    {OtherLine} \cup
    {HopLineOf(h, l, s, 10, w) : l \in {0, 10}, s \in {20, 21}, w \in {110, 111}}

\* The report bodies of n lines, one line per hop 1..n.
RECURSIVE Reports(_)
Reports(n) ==
    IF n = 0 THEN {<<>>}
    ELSE {Append(r, ln) : r \in Reports(n - 1), ln \in LinesOfHop(n)}

\* What running mtr gives: not installed (330-334), a non-zero exit or
\* another exception (404-409), output of fewer than 2 lines (342-344), or
\* a header followed by report lines.
MtrOutputs ==
    {[kind |-> k, lines |-> <<>>] : k \in {"not_installed", "failed", "no_data"}}
    \cup {[kind |-> "report", lines |-> r] : r \in UNION {Reports(n) : n \in 1..MaxHops}}

\* Mutant of FlagsOf: the flags are alternatives, only the first is raised.
FlagsOfExclusive(ln) ==
    IF ln.loss > 0 THEN {"LOSS"}
    ELSE IF ln.stdev > 20 THEN {"HIGH-JITTER"}
    ELSE IF ln.worst - ln.best > 100 THEN {"LATENCY-VAR"}
    ELSE {}

\* Lines 379-389: the flags of one hop.
FlagsOf(ln) ==
    (IF ln.loss > 0 THEN {"LOSS"} ELSE {})
    \cup (IF ln.stdev > 20 THEN {"HIGH-JITTER"} ELSE {})
    \cup (IF ln.worst - ln.best > 100 THEN {"LATENCY-VAR"} ELSE {})

\* Lines 352-377 and 402: the list mtr_test returns for the report lines.
HopsOf(lines) ==
    LET parsed == SelectSeq(lines, LAMBDA ln : ln.parses)
    IN [i \in 1..Len(parsed) |->
           <<parsed[i].hop, parsed[i].loss, parsed[i].avg, parsed[i].stdev>>]

\* Report lines of hop h without loss whose stdev is at most 10, between
\* the thresholds of 867 and of 384, and above both.
JitterLinesOfHop(h) == {HopLineOf(h, 0, s, 10, 20) : s \in {10, 20, 21}}

\* The report bodies of n such lines, one line per hop 1..n.
RECURSIVE JitterReports(_)
JitterReports(n) ==
    IF n = 0 THEN {<<>>}
    ELSE {Append(r, ln) : r \in JitterReports(n - 1), ln \in JitterLinesOfHop(n)}

\* The passes whose route is what mtr_test returned for such a report, the
\* other sub-tests having produced nothing; n = 0 is a pass without route.
JitterPasses ==
    {PassResult(<<>>, <<>>, NoDns, HopsOf(r)) :
        r \in UNION {JitterReports(n) : n \in 0..MaxHops}}

\* The lists of at most n such passes.
JitterPassLists(n) == UNION {[1..k -> JitterPasses] : k \in 0..n}

\* Line 384 applied to a record of a returned route: the live HIGH-JITTER
\* flag reads the stdev alone, which the record keeps.
LiveJitter(rec) ==
    "HIGH-JITTER" \in FlagsOf(HopLineOf(rec[1], rec[2], rec[4], rec[3], rec[3]))

\* The idle state of mtr_test when it is not under study.
MtrIdle ==
    /\ mtr_out = [kind |-> "not_installed", lines |-> <<>>]
    /\ mtrPc = 0
    /\ mtr_hops = <<>>
    /\ hop_flags = <<>>
    /\ problem_hops = 0
    /\ mtrRet = <<>>

\* Entry of mtr_test, with what running mtr is going to give.
MtrInit(out) ==
    /\ mtr_out = out
    /\ mtrPc = 1
    /\ mtr_hops = <<>>
    /\ hop_flags = <<>>
    /\ problem_hops = 0
    /\ mtrRet = <<>>

(***************************************************************************)
(* The server named on the command line, main, lines 570-615.  The named   *)
(* server is host 1 of the table: the loop reads its port list alone.      *)
(***************************************************************************)
\* The default iperf3 port given to a server that is not in the table (613).
DefaultPort == 5201

\* The idle state of main's server choice when it is not under study.
ExIdle ==
    /\ named = "listed"
    /\ exPc = "off"
    /\ exPort = 1
    /\ working_port = <<>>
    /\ udp_support = FALSE
    /\ iperf_port = <<>>

\* Line 571 with a server name given; working_port = None, udp_support =
\* False (581-582).
ExInit(nm) ==
    /\ named = nm
    /\ exPc = "loop"
    /\ exPort = 1
    /\ working_port = <<>>
    /\ udp_support = FALSE
    /\ iperf_port = <<>>

\* The loop header of line 584: the next port, or the end of the loop.
ExContinue ==
    IF exPort < table[1]
    THEN exPort' = exPort + 1 /\ UNCHANGED exPc
    ELSE exPc' = "choose" /\ UNCHANGED exPort

\* The variables of the components other than c stay as they are.
Frame(c) ==
    /\ IF c = "bb" THEN TRUE ELSE UNCHANGED bbVars
    /\ IF c = "jit" THEN TRUE ELSE UNCHANGED jitVars
    /\ IF c = "agg" THEN TRUE ELSE UNCHANGED aggVars
    /\ IF c = "fs" THEN TRUE ELSE UNCHANGED fsVars
    /\ IF c = "log" THEN TRUE ELSE UNCHANGED logVars
    /\ IF c = "probe" THEN TRUE ELSE UNCHANGED probeVars
    /\ IF c = "main" THEN TRUE ELSE UNCHANGED mainVars
    /\ IF c = "ol" THEN TRUE ELSE UNCHANGED olVars
    /\ IF c = "cc" THEN TRUE ELSE UNCHANGED ccVars
    /\ IF c = "any" THEN TRUE ELSE UNCHANGED anyVars
    /\ IF c = "mtr" THEN TRUE ELSE UNCHANGED mtrVars
    /\ IF c = "ex" THEN TRUE ELSE UNCHANGED exVars

\* The components other than c are idle.
IdleExcept(c) ==
    /\ IF c = "bb" THEN TRUE ELSE BbIdle
    /\ IF c = "jit" THEN TRUE ELSE JitIdle
    /\ IF c = "agg" THEN TRUE ELSE AggIdle
    /\ IF c = "fs" THEN TRUE ELSE FsIdle
    /\ IF c = "log" THEN TRUE ELSE LogIdle
    /\ IF c = "probe" THEN TRUE ELSE ProbeIdle
    /\ IF c = "main" THEN TRUE ELSE MainIdle
    /\ IF c = "ol" THEN TRUE ELSE OlIdle
    /\ IF c = "cc" THEN TRUE ELSE CcIdle
    /\ IF c = "any" THEN TRUE ELSE AnyIdle
    /\ IF c = "mtr" THEN TRUE ELSE MtrIdle
    /\ IF c = "ex" THEN TRUE ELSE ExIdle

\* Mutant of BbBaseline: an empty baseline window is replaced by 0 and the
\* test goes on.
BbBaselineDefault ==
    /\ bbPc = "baseline"
    /\ \E base \in WindowMeans :
         /\ base_avg' = IF base = <<>> THEN 0 ELSE base[1]
         /\ base_empty' = (base = <<>>)
         /\ bbPc' = "upload"
         /\ UNCHANGED bbRet
    /\ UNCHANGED <<upload_avg, download_avg, transfers>>
    /\ UNCHANGED coreVars
    /\ Frame("bb")

\* Lines 213-224: the baseline window; no reply means no result.
BbBaseline ==
    /\ bbPc = "baseline"
    /\ \E base \in WindowMeans :
         IF base = <<>>
         THEN /\ bbRet' = <<>>
              /\ bbPc' = "done"
              /\ base_empty' = TRUE
              /\ UNCHANGED base_avg
         ELSE /\ base_avg' = base[1]
              /\ bbPc' = "upload"
              /\ base_empty' = FALSE
              /\ UNCHANGED bbRet
    /\ UNCHANGED <<upload_avg, download_avg, transfers>>
    /\ UNCHANGED coreVars
    /\ Frame("bb")

\* Lines 253-262: the upload transfer with its window of pings.
BbUpload ==
    /\ bbPc = "upload"
    /\ transfers' = Append(transfers, "upload")
    /\ \E up_ping \in WindowMeans : upload_avg' = up_ping
    /\ bbPc' = "download"
    /\ UNCHANGED <<base_avg, download_avg, bbRet, base_empty>>
    /\ UNCHANGED coreVars
    /\ Frame("bb")

\* Lines 264-273: the download transfer with its window of pings.
BbDownload ==
    /\ bbPc = "download"
    /\ transfers' = Append(transfers, "download")
    /\ \E down_ping \in WindowMeans : download_avg' = down_ping
    /\ bbPc' = "grade"
    /\ UNCHANGED <<base_avg, upload_avg, bbRet, base_empty>>
    /\ UNCHANGED coreVars
    /\ Frame("bb")

\* Lines 275-287: grade and return the results dict.
BbGrade ==
    /\ bbPc = "grade"
    /\ bbRet' = <<[baseline_avg |-> base_avg, upload_avg |-> upload_avg,
                   download_avg |-> download_avg,
                   grade |-> Grade(base_avg, upload_avg, download_avg)]>>
    /\ bbPc' = "done"
    /\ UNCHANGED <<base_avg, upload_avg, download_avg, transfers, base_empty>>
    /\ UNCHANGED coreVars
    /\ Frame("bb")

\* Lines 295-321: run iperf3, parse its summary, grade it; None on any
\* exception and on an incomplete summary.
JitterTest ==
    /\ jitPc = "start"
    /\ IF jitOut.kind # "json"
       THEN jitRet' = <<>>
       ELSE LET jitter == jitOut.jitter_ms
                lost == jitOut.lost_packets
                total == jitOut.packets
            IN IF jitter = <<>> \/ lost = <<>> \/ total = <<>>
               THEN jitRet' = <<>>
               ELSE jitRet' = <<[jitter_ms |-> jitter[1], lost |-> lost[1],
                                total |-> total[1],
                                status |-> JitterStatus(jitter[1], lost[1])]>>
    /\ jitPc' = "done"
    /\ UNCHANGED jitOut
    /\ UNCHANGED coreVars
    /\ Frame("jit")

\* display_statistical_summary, 720-759, with the four analyses it calls.
DisplayStatisticalSummary ==
    /\ aggPc = "start"
    /\ report' = <<StatisticalSummary(summary_results)>>
    /\ aggPc' = "done"
    /\ UNCHANGED summary_results
    /\ UNCHANGED coreVars
    /\ Frame("agg")

\* display_final_summary, 877-908: ok starts True, every PROBLEM line
\* clears it, and the closing line depends on ok alone.
DisplayFinalSummary ==
    /\ fsPc = "start"
    /\ problems' = ProblemsOf(final_results[1])
    /\ verdict' = IF ProblemsOf(final_results[1]) = {} THEN "all_passed"
                                                     ELSE "issues"
    /\ fsPc' = "done"
    /\ UNCHANGED final_results
    /\ UNCHANGED coreVars
    /\ Frame("fs")

\* One log_file.write call of pass p (707, 708, 713, 714, 716): no lock is
\* taken, so the calls of the passes interleave in any order.
LogWrite(p) ==
    /\ logPos[p] \in 1..Len(BlockWrites(logResults[p]))
    /\ log_file' = Append(log_file, [by |-> p, text |-> BlockWrites(logResults[p])[logPos[p]]])
    /\ logPos' = [logPos EXCEPT ![p] = @ + 1]
    /\ UNCHANGED logResults
    /\ UNCHANGED coreVars
    /\ Frame("log")

\* log_file.flush() of pass p, line 717, and the return.
LogFlush(p) ==
    /\ logPos[p] = Len(BlockWrites(logResults[p])) + 1
    /\ logPos' = [logPos EXCEPT ![p] = 0]
    /\ UNCHANGED <<log_file, logResults>>
    /\ UNCHANGED coreVars
    /\ Frame("log")

\* The external tool of the current call returns on its own.
ProbeReturn ==
    /\ probePc \in 1..Len(ProbeCalls)
    /\ ProbeCalls[probePc] \notin hangs
    /\ probePc' = probePc + 1
    /\ UNCHANGED <<hangs, cut_off>>
    /\ UNCHANGED coreVars
    /\ Frame("probe")

\* The current call does not return and its timeout ends it.  A call made
\* without a timeout stays blocked.
ProbeTimeout ==
    /\ probePc \in 1..Len(ProbeCalls)
    /\ ProbeCalls[probePc] \in hangs
    /\ TimeoutOf(ProbeCalls[probePc]) # <<>>
    /\ cut_off' = cut_off \cup {ProbeCalls[probePc]}
    /\ probePc' = probePc + 1
    /\ UNCHANGED hangs
    /\ UNCHANGED coreVars
    /\ Frame("probe")

\* Lines 52-73: the imports; a missing required library ends the program
\* with exit code 1.
ImportModules ==
    /\ mainPc = "import"
    /\ IF missing \cap Required # {}
       THEN /\ exit_code' = <<1>>
            /\ mainPc' = "exited"
       ELSE /\ exit_code' = exit_code
            /\ mainPc' = "main"
    /\ UNCHANGED <<missing, args_runs, args_quick, mainTest, mainLeft, started, faulted>>
    /\ UNCHANGED coreVars
    /\ Frame("main")

\* Lines 527-620: the arguments (--quick sets runs to 1), the log file, the
\* server, and the choice between the single run and multiple runs.
ChooseMode ==
    /\ mainPc = "main"
    /\ LET runs == IF args_quick THEN 1 ELSE args_runs
       IN /\ mainPc' = IF runs = 1 THEN "single" ELSE "multiple"
          /\ mainLeft' = IF runs = 1 THEN 0 ELSE runs
    /\ UNCHANGED <<missing, args_runs, args_quick, mainTest, started, faulted, exit_code>>
    /\ UNCHANGED coreVars
    /\ Frame("main")

\* Line 623 with 649-654: the next sub-test of run_single_test, called from
\* main outside any try/except: a fault it raises leaves main as an
\* uncaught exception, which ends the interpreter with exit code 1.
SingleSubTest ==
    /\ mainPc = "single"
    /\ mainTest \in 1..Len(Tests)
    /\ started' = TRUE
    /\ \E o \in Outcomes(Tests[mainTest]) :
          IF o = "raise"
          THEN /\ faulted' = Tests[mainTest]
               /\ exit_code' = <<1>>
               /\ mainPc' = "exited"
               /\ mainTest' = mainTest
          ELSE /\ faulted' = faulted
               /\ exit_code' = exit_code
               /\ mainPc' = IF mainTest = Len(Tests) THEN "summary" ELSE "single"
               /\ mainTest' = mainTest + 1
    /\ UNCHANGED <<missing, args_runs, args_quick, mainLeft>>
    /\ UNCHANGED coreVars
    /\ Frame("main")

\* Lines 635-636 with 669-676: one pass of run_multiple_tests; a fault of
\* the pass is caught by run_test_worker and never reaches main.
MultiplePass ==
    /\ mainPc = "multiple"
    /\ mainLeft > 0
    /\ started' = TRUE
    /\ mainLeft' = mainLeft - 1
    /\ UNCHANGED <<missing, args_runs, args_quick, mainPc, mainTest, faulted, exit_code>>
    /\ UNCHANGED coreVars
    /\ Frame("main")

\* Line 636: run_multiple_tests has returned.
MultipleDone ==
    /\ mainPc = "multiple"
    /\ mainLeft = 0
    /\ mainPc' = "summary"
    /\ UNCHANGED <<missing, args_runs, args_quick, mainTest, mainLeft, started,
                   faulted, exit_code>>
    /\ UNCHANGED coreVars
    /\ Frame("main")

\* Lines 624 or 637, then 639-642 and the return of main: exit code 0.
SummaryAndExit ==
    /\ mainPc = "summary"
    /\ exit_code' = <<0>>
    /\ mainPc' = "exited"
    /\ UNCHANGED <<missing, args_runs, args_quick, mainTest, mainLeft, started, faulted>>
    /\ UNCHANGED coreVars
    /\ Frame("main")

\* Lines 241-242: th = threading.Thread(target=do_ping); th.start().
ThStart ==
    /\ olPc = "th_start"
    /\ th' = [th EXCEPT ![olPhase] = "running"]
    /\ olPc' = "popen"
    /\ UNCHANGED <<olPhase, proc, loaded, joined, pings>>
    /\ UNCHANGED coreVars
    /\ Frame("ol")

\* Lines 231-239, in the sampler thread: one reply appended to loaded.
DoPing(ph) ==
    /\ th[ph] = "running"
    /\ loaded[ph] < MaxSamples
    /\ loaded' = [loaded EXCEPT ![ph] = @ + 1]
    /\ UNCHANGED <<olPhase, olPc, th, proc, joined, pings>>
    /\ UNCHANGED coreVars
    /\ Frame("ol")

\* Line 232, in the sampler thread: the duration is over, do_ping returns.
DoPingEnd(ph) ==
    /\ th[ph] = "running"
    /\ th' = [th EXCEPT ![ph] = "finished"]
    /\ UNCHANGED <<olPhase, olPc, proc, loaded, joined, pings>>
    /\ UNCHANGED coreVars
    /\ Frame("ol")

\* Lines 244-249: subprocess.Popen(cmd) starts iperf3, or raises and the
\* exception is caught and printed.
Popen ==
    /\ olPc = "popen"
    /\ \E launched \in BOOLEAN :
          IF launched
          THEN /\ proc' = [proc EXCEPT ![olPhase] = "running"]
               /\ olPc' = "wait"
          ELSE /\ proc' = [proc EXCEPT ![olPhase] = "failed"]
               /\ olPc' = "join"
    /\ UNCHANGED <<olPhase, th, loaded, joined, pings>>
    /\ UNCHANGED coreVars
    /\ Frame("ol")

\* The iperf3 child of phase ph exits.
ProcExit(ph) ==
    /\ proc[ph] = "running"
    /\ proc' = [proc EXCEPT ![ph] = "exited"]
    /\ UNCHANGED <<olPhase, olPc, th, loaded, joined, pings>>
    /\ UNCHANGED coreVars
    /\ Frame("ol")

\* Line 247: proc.wait() returns once the child has exited.
ProcWait ==
    /\ olPc = "wait"
    /\ proc[olPhase] = "exited"
    /\ olPc' = "join"
    /\ UNCHANGED <<olPhase, th, proc, loaded, joined, pings>>
    /\ UNCHANGED coreVars
    /\ Frame("ol")

\* Mutant of ThJoin: the join returns without waiting for the sampler.
ThJoinNoWait ==
    /\ olPc = "join"
    /\ joined' = [joined EXCEPT ![olPhase] = TRUE]
    /\ olPc' = "return"
    /\ UNCHANGED <<olPhase, th, proc, loaded, pings>>
    /\ UNCHANGED coreVars
    /\ Frame("ol")

\* Line 250: th.join() returns once do_ping has returned.
ThJoin ==
    /\ olPc = "join"
    /\ th[olPhase] = "finished"
    /\ joined' = [joined EXCEPT ![olPhase] = TRUE]
    /\ olPc' = "return"
    /\ UNCHANGED <<olPhase, th, proc, loaded, pings>>
    /\ UNCHANGED coreVars
    /\ Frame("ol")

\* Line 251 with 256-262 or 267-273: run_load_and_ping returns loaded, the
\* caller reads it, and the upload is followed by the download.
ReturnLoaded ==
    /\ olPc = "return"
    /\ pings' = [pings EXCEPT ![olPhase] = <<loaded[olPhase]>>]
    /\ IF olPhase = "upload"
       THEN /\ olPhase' = "download"
            /\ olPc' = "th_start"
       ELSE /\ olPhase' = olPhase
            /\ olPc' = "done"
    /\ UNCHANGED <<th, proc, loaded, joined>>
    /\ UNCHANGED coreVars
    /\ Frame("ol")

\* Lines 620-636: a single run is one pass in the main thread; otherwise
\* effective_parallel is args.parallel, raised to 2 when args.runs >= 6 and
\* args.parallel == 1, and run_multiple_tests is entered (679).
EnterRuns ==
    /\ ccPc = "main"
    /\ IF req_runs = 1
       THEN /\ active' = {1}
            /\ ccPc' = "join"
            /\ UNCHANGED <<effective_parallel, pending>>
       ELSE /\ effective_parallel' =
                  IF req_runs >= StressRuns /\ req_parallel = 1 THEN 2
                                                                ELSE req_parallel
            /\ pending' = RangeList(req_runs)
            /\ ccPc' = "while"
            /\ UNCHANGED active
    /\ UNCHANGED <<req_runs, req_parallel, to_start>>
    /\ UNCHANGED coreVars
    /\ Frame("cc")

\* Lines 681-687: the loop test and the next batch.
TakeBatch ==
    /\ ccPc = "while"
    /\ IF pending # <<>>
       THEN LET batch_size == Min(effective_parallel, Len(pending))
            IN /\ to_start' = PySliceTo(pending, batch_size)
               /\ pending' = PySliceFrom(pending, batch_size)
               /\ ccPc' = "start"
       ELSE /\ ccPc' = "done"
            /\ UNCHANGED <<to_start, pending>>
    /\ UNCHANGED <<req_runs, req_parallel, effective_parallel, active>>
    /\ UNCHANGED coreVars
    /\ Frame("cc")

\* Lines 688-691: the thread of the next pass of the batch is started.
StartPass ==
    /\ ccPc = "start"
    /\ IF to_start # <<>>
       THEN /\ active' = active \cup {Head(to_start)}
            /\ to_start' = Tail(to_start)
            /\ ccPc' = ccPc
       ELSE /\ ccPc' = "join"
            /\ UNCHANGED <<active, to_start>>
    /\ UNCHANGED <<req_runs, req_parallel, effective_parallel, pending>>
    /\ UNCHANGED coreVars
    /\ Frame("cc")

\* A running pass ends (run_test_worker returns, or the single run does).
EndPass(r) ==
    /\ r \in active
    /\ active' = active \ {r}
    /\ UNCHANGED <<req_runs, req_parallel, effective_parallel, pending, to_start, ccPc>>
    /\ UNCHANGED coreVars
    /\ Frame("cc")

\* Lines 694-696: every thread of the batch has been joined; a single run
\* has returned (623).
JoinBatch ==
    /\ ccPc = "join"
    /\ active = {}
    /\ ccPc' = IF req_runs = 1 THEN "done" ELSE "while"
    /\ UNCHANGED <<req_runs, req_parallel, effective_parallel, pending, to_start, active>>
    /\ UNCHANGED coreVars
    /\ Frame("cc")

\* Mutant of MtuProbeAny: a failed ping forgets the recorded size.
MtuProbeAnyForgets ==
    /\ mtuPc = "loop"
    /\ LoopCond(low, high)
    /\ LET mid == (low + high) \div 2
       IN /\ mtuProbes' = Append(mtuProbes, mid)
          /\ \E ok \in BOOLEAN :
                IF ok
                THEN /\ mtu' = <<mid + Overhead>>
                     /\ low' = mid + 1
                     /\ succeeded' = succeeded \cup {mid}
                     /\ UNCHANGED high
                ELSE /\ high' = mid - 1
                     /\ mtu' = <<>>
                     /\ UNCHANGED <<low, succeeded>>
    /\ UNCHANGED <<system, mtuS, mtuPc, mtuRet>>
    /\ UNCHANGED <<schedVars, selVars>>
    /\ Frame("any")

\* Lines 434-445: one iteration of the search; the return code of the ping
\* (440-441) is whatever the path gives for this size.
MtuProbeAny ==
    /\ mtuPc = "loop"
    /\ LoopCond(low, high)
    /\ LET mid == (low + high) \div 2
       IN /\ mtuProbes' = Append(mtuProbes, mid)
          /\ \E ok \in BOOLEAN :
                IF ok
                THEN /\ mtu' = <<mid + Overhead>>
                     /\ low' = mid + 1
                     /\ succeeded' = succeeded \cup {mid}
                     /\ UNCHANGED high
                ELSE /\ high' = mid - 1
                     /\ UNCHANGED <<mtu, low, succeeded>>
    /\ UNCHANGED <<system, mtuS, mtuPc, mtuRet>>
    /\ UNCHANGED <<schedVars, selVars>>
    /\ Frame("any")

\* Lines 352-392: the next line of the report; a line that parses is
\* appended to mtr_hops with its flags, each flag adding a problem.
MtrLine ==
    /\ mtrPc \in 1..Len(mtr_out.lines)
    /\ LET ln == mtr_out.lines[mtrPc]
       IN IF ln.parses
          THEN /\ mtr_hops' = Append(mtr_hops, <<ln.hop, ln.loss, ln.avg, ln.stdev>>)
               /\ hop_flags' = Append(hop_flags, FlagsOf(ln))
               /\ problem_hops' = problem_hops + Cardinality(FlagsOf(ln))
          ELSE UNCHANGED <<mtr_hops, hop_flags, problem_hops>>
    /\ mtrPc' = mtrPc + 1
    /\ UNCHANGED <<mtr_out, mtrRet>>
    /\ UNCHANGED coreVars
    /\ Frame("mtr")

\* Lines 330-344 and 394-409: None when mtr gave no report, else the list
\* mtr_hops once every line has been read.
MtrReturn ==
    /\ mtrPc = Len(mtr_out.lines) + 1
    /\ mtrRet' = IF mtr_out.kind = "report" THEN <<mtr_hops>> ELSE <<>>
    /\ mtrPc' = 0
    /\ UNCHANGED <<mtr_out, mtr_hops, hop_flags, problem_hops>>
    /\ UNCHANGED coreVars
    /\ Frame("mtr")

\* Mutant of ExProbe: every port with TCP only replaces the fallback port.
ExProbeLastTcp ==
    /\ exPc = "loop"
    /\ named = "listed"
    /\ LET pr == <<1, exPort>>
       IN \E c \in ProbeOutcomes(connMemo, pr) :
            /\ connMemo' = [connMemo EXCEPT ![pr] = c]
            /\ IF c = "yes"
               THEN \E u \in ProbeOutcomes(udpMemo, pr) :
                      /\ udpMemo' = [udpMemo EXCEPT ![pr] = u]
                      /\ IF u = "yes"
                         THEN /\ working_port' = <<exPort>>
                              /\ udp_support' = TRUE
                              /\ exPc' = "choose"
                              /\ UNCHANGED exPort
                         ELSE /\ working_port' = <<exPort>>
                              /\ UNCHANGED udp_support
                              /\ ExContinue
               ELSE /\ UNCHANGED <<udpMemo, working_port, udp_support>>
                    /\ ExContinue
    /\ UNCHANGED <<named, iperf_port>>
    /\ UNCHANGED <<table, selPc, selHost, selPort, probed1, probed2, selMsg, selRet>>
    /\ UNCHANGED <<schedVars, mtuVars>>
    /\ Frame("ex")

\* Lines 584-601: one iteration of main's loop over the ports of the named
\* server: the connectivity probe and, when it succeeds, the UDP probe;
\* break on the first port passing both, and keep the first port with TCP
\* alone as fallback.
ExProbe ==
    /\ exPc = "loop"
    /\ named = "listed"
    /\ LET pr == <<1, exPort>>
       IN \E c \in ProbeOutcomes(connMemo, pr) :
            /\ connMemo' = [connMemo EXCEPT ![pr] = c]
            /\ IF c = "yes"
               THEN \E u \in ProbeOutcomes(udpMemo, pr) :
                      /\ udpMemo' = [udpMemo EXCEPT ![pr] = u]
                      /\ IF u = "yes"
                         THEN /\ working_port' = <<exPort>>
                              /\ udp_support' = TRUE
                              /\ exPc' = "choose"
                              /\ UNCHANGED exPort
                         ELSE /\ working_port' = IF working_port = <<>>
                                                  THEN <<exPort>> ELSE working_port
                              /\ UNCHANGED udp_support
                              /\ ExContinue
               ELSE /\ UNCHANGED <<udpMemo, working_port, udp_support>>
                    /\ ExContinue
    /\ UNCHANGED <<named, iperf_port>>
    /\ UNCHANGED <<table, selPc, selHost, selPort, probed1, probed2, selMsg, selRet>>
    /\ UNCHANGED <<schedVars, mtuVars>>
    /\ Frame("ex")

\* Lines 603-611: the port found, else the first port of the list.
ExChoose ==
    /\ exPc = "choose"
    /\ iperf_port' = IF working_port # <<>> THEN working_port ELSE <<1>>
    /\ exPc' = "done"
    /\ UNCHANGED <<named, exPort, working_port, udp_support>>
    /\ UNCHANGED coreVars
    /\ Frame("ex")

\* Lines 612-615: a server that is not in the table gets the default port
\* and no probe is made.
ExCustom ==
    /\ exPc = "loop"
    /\ named = "custom"
    /\ iperf_port' = <<DefaultPort>>
    /\ exPc' = "done"
    /\ UNCHANGED <<named, exPort, working_port, udp_support>>
    /\ UNCHANGED coreVars
    /\ Frame("ex")

\* The tables of the model: 1..MaxHosts hosts with 1..MaxPorts ports each.
Tables == UNION {[1..n -> 1..MaxPorts] : n \in 1..MaxHosts}

\* The idle state of the scheduler when it is not the operation under study.
SchedIdle ==
    /\ SchedInit(1, 1)

\* The scheduler, the selector and mtu_test are idle.
CoreIdle ==
    /\ SchedIdle
    /\ SelIdle
    /\ MtuIdle

Init ==
    /\ \E n \in 1..MaxRuns, p \in 1..MaxParallel : SchedInit(n, p)
    /\ SelIdle
    /\ MtuIdle
    /\ IdleExcept("core")

Next ==
    \/ NextBatch
    \/ StartThread
    \/ StartDone
    \/ JoinThread
    \/ JoinDone
    \/ Collect
    \/ Return
    \/ \E r \in Runs : SubTest(r)
    \/ \E r \in Runs : PutResult(r)
    \/ \E r \in Runs : PutError(r)

Spec == Init /\ [][Next]_vars

SelectInit ==
    /\ \E tbl \in Tables : SelInit(tbl)
    /\ SchedIdle
    /\ MtuIdle
    /\ IdleExcept("core")

SelectNext ==
    \/ Pass1Probe
    \/ Pass2Probe
    \/ ReturnFallback

SpecSelect == SelectInit /\ [][SelectNext]_vars

MtuSpecInit ==
    /\ \E sys \in Systems, s \in -1..MtuHigh : MtuInit(sys, s)
    /\ SchedIdle
    /\ SelIdle
    /\ IdleExcept("core")

MtuNext ==
    \/ MtuStart
    \/ MtuProbe
    \/ MtuReturn

SpecMtu == MtuSpecInit /\ [][MtuNext]_vars

BloatInit ==
    /\ BbInit
    /\ CoreIdle
    /\ IdleExcept("bb")

BloatNext ==
    \/ BbBaseline
    \/ BbUpload
    \/ BbDownload
    \/ BbGrade

SpecBloat == BloatInit /\ [][BloatNext]_vars

JitterInit ==
    /\ \E out \in JitterOutputs : JitInit(out)
    /\ CoreIdle
    /\ IdleExcept("jit")

JitterNext ==
    \/ JitterTest

SpecJitter == JitterInit /\ [][JitterNext]_vars

AggregateInit ==
    /\ \E rs \in PassLists(MaxPasses) : AggInit(rs)
    /\ CoreIdle
    /\ IdleExcept("agg")

AggregateNext ==
    \/ DisplayStatisticalSummary

SpecAggregate == AggregateInit /\ [][AggregateNext]_vars

FinalSummaryInit ==
    /\ \E r \in FinalResults : FsInit(r)
    /\ CoreIdle
    /\ IdleExcept("fs")

FinalSummaryNext ==
    \/ DisplayFinalSummary

SpecFinalSummary == FinalSummaryInit /\ [][FinalSummaryNext]_vars

LogSpecInit ==
    /\ \E truthy \in [LogPasses -> TruthySets] : LogInit(truthy)
    /\ CoreIdle
    /\ IdleExcept("log")

LogNext ==
    \/ \E p \in LogPasses : LogWrite(p)
    \/ \E p \in LogPasses : LogFlush(p)

SpecLog == LogSpecInit /\ [][LogNext]_vars

ProbeSpecInit ==
    /\ \E h \in SUBSET {ProbeCalls[i] : i \in 1..Len(ProbeCalls)} : ProbeInit(h)
    /\ CoreIdle
    /\ IdleExcept("probe")

ProbeNext ==
    \/ ProbeReturn
    \/ ProbeTimeout

SpecProbe == ProbeSpecInit /\ [][ProbeNext]_vars

MainSpecInit ==
    /\ \E m \in SUBSET Libraries, n \in 0..MaxRuns, q \in BOOLEAN : MainInit(m, n, q)
    /\ CoreIdle
    /\ IdleExcept("main")

MainNext ==
    \/ ImportModules
    \/ ChooseMode
    \/ SingleSubTest
    \/ MultiplePass
    \/ MultipleDone
    \/ SummaryAndExit

SpecMain == MainSpecInit /\ [][MainNext]_vars

\* run_multiple_tests for every number of runs and every integer parallel.
SchedAnyInit ==
    /\ \E n \in 0..MaxRuns, p \in ParallelValues : SchedInit(n, p)
    /\ SelIdle
    /\ MtuIdle
    /\ IdleExcept("core")

SpecSchedAny == SchedAnyInit /\ [][Next]_vars

OverlapInit ==
    /\ OlInit
    /\ CoreIdle
    /\ IdleExcept("ol")

OverlapNext ==
    \/ ThStart
    \/ \E ph \in Phases : DoPing(ph)
    \/ \E ph \in Phases : DoPingEnd(ph)
    \/ Popen
    \/ \E ph \in Phases : ProcExit(ph)
    \/ ProcWait
    \/ ThJoin
    \/ ReturnLoaded

SpecOverlap == OverlapInit /\ [][OverlapNext]_vars

ConcurrencyInit ==
    /\ \E n \in RunCounts, p \in 1..MaxParallel : CcInit(n, p)
    /\ CoreIdle
    /\ IdleExcept("cc")

ConcurrencyNext ==
    \/ EnterRuns
    \/ TakeBatch
    \/ StartPass
    \/ \E r \in RunCounts : EndPass(r)
    \/ JoinBatch

SpecConcurrency == ConcurrencyInit /\ [][ConcurrencyNext]_vars

MtuAnyInit ==
    /\ \E sys \in Systems : MtuInit(sys, -1)
    /\ SchedIdle
    /\ SelIdle
    /\ IdleExcept("core")

MtuAnyNext ==
    \/ MtuStart
    \/ MtuProbeAny
    \/ MtuReturn

SpecMtuAny == MtuAnyInit /\ [][MtuAnyNext]_vars

MtrSpecInit ==
    /\ \E out \in MtrOutputs : MtrInit(out)
    /\ CoreIdle
    /\ IdleExcept("mtr")

MtrNext ==
    \/ MtrLine
    \/ MtrReturn

SpecMtr == MtrSpecInit /\ [][MtrNext]_vars

RouteJitterInit ==
    /\ \E rs \in JitterPassLists(MaxPasses) : AggInit(rs)
    /\ CoreIdle
    /\ IdleExcept("agg")

RouteJitterNext ==
    \/ DisplayStatisticalSummary

SpecRouteJitter == RouteJitterInit /\ [][RouteJitterNext]_vars

\* main's choice for the named server next to select_best_server on the
\* table holding that server alone, the probes of a (server, port) pair
\* giving both the same outcome.
ExplicitInit ==
    /\ \E n \in 1..MaxPorts : SelInit(<<n>>)
    /\ \E nm \in {"listed", "custom"} : ExInit(nm)
    /\ SchedIdle
    /\ MtuIdle
    /\ IdleExcept("ex")

ExplicitNext ==
    \/ ExProbe
    \/ ExChoose
    \/ ExCustom
    \/ Pass1Probe
    \/ Pass2Probe
    \/ ReturnFallback

SpecExplicit == ExplicitInit /\ [][ExplicitNext]_vars

(***************************************************************************)
(* Properties of the scheduler.                                            *)
(***************************************************************************)
\* Passes whose worker thread has been started and has not ended.
Running == {r \in Runs : wpc[r] \notin {"idle", "done"}}

\* Positions in the returned list that carry run id r.
EntriesOf(r) == {i \in 1..Len(ret) : ret[i].run_id = r}

\* The pass of run id r raised a fault (caught at line 674).
Faulted(r) == werr[r] # NoError

\* What pass r itself produced: its results, or its fault.
OwnEntry(r) ==
    IF Faulted(r) THEN ErrorEntry(r, werr[r]) ELSE ResultEntry(r, results[r])

\* Number of run ids in the batches before batch k.
RECURSIVE BatchedBefore(_)
BatchedBefore(k) == IF k <= 1 THEN 0 ELSE BatchedBefore(k - 1) + Len(batches[k - 1])

\* C1 (scheduler ordering): when run_multiple_tests has returned, the i-th
\* entry of the returned list carries run id i, so the run ids are strictly
\* increasing (1, 2, ..., n) whatever the order in which the workers put their
\* entries on the queue.
C1_Ordering ==
    mpc = "done" =>
        /\ \A i \in 1..Len(ret) : ret[i].run_id = i
        /\ \A i \in 1..(Len(ret) - 1) : ret[i].run_id < ret[i + 1].run_id

\* C1 witness: a run of at least two passes has returned although the queue
\* delivered a later pass before an earlier one.
C1_Witness ==
    /\ mpc = "done"
    /\ num_runs >= 2
    /\ \E i \in 1..(Len(all_results) - 1) :
          all_results[i].run_id > all_results[i + 1].run_id

\* C2 (batch barrier and concurrency bound): at every moment at most
\* `parallel` passes are running; the k-th batch has size
\* min(parallel, remaining before it); and a pass of a later batch is started
\* only when every pass of every earlier batch has ended.
C2_BatchBarrier ==
    /\ Cardinality(Running) <= parallel
    /\ \A k \in 1..Len(batches) :
          Len(batches[k]) = Min(parallel, num_runs - BatchedBefore(k))
    /\ \A k \in 1..Len(batches) : \A l \in (k + 1)..Len(batches) :
          \A i \in 1..Len(batches[k]) : \A j \in 1..Len(batches[l]) :
             wpc[batches[l][j]] # "idle" => wpc[batches[k][i]] = "done"

\* C2 witness: a pass of the second batch is running after a first batch of
\* `parallel` >= 2 passes, which ran at the same moment, has ended.
C2_Witness ==
    /\ parallel >= 2
    /\ Len(batches) >= 2
    /\ Len(batches[1]) = parallel
    /\ Running # {}
    /\ \A i \in 1..Len(batches[1]) : results[batches[1][i]]["bufferbloat"] # "absent"

\* C3 (pass-level failure isolation): the scheduler is never stuck before it
\* returns; and when it has returned, every pass was started and has ended, a
\* pass that raised a fault has exactly one entry, the error entry carrying
\* its own run id, and every other pass has exactly one entry, holding its own
\* results with every sub-test key set.
C3_PassIsolation ==
    /\ mpc # "done" => ENABLED Next
    /\ mpc = "done" =>
          \A r \in Runs :
             /\ wpc[r] = "done"
             /\ Cardinality(EntriesOf(r)) = 1
             /\ \A i \in EntriesOf(r) : ret[i] = OwnEntry(r)
             /\ Faulted(r) =>
                   \A i \in EntriesOf(r) : ret[i].error = werr[r] /\ ret[i].run_id = r
             /\ ~Faulted(r) =>
                   \A i \in EntriesOf(r) : \A t \in TestNames :
                      ret[i].results[t] \in {"val", "None"}

\* C3 witness: a run has returned in which pass 1 raised a fault while a pass
\* of the same batch and a pass of a later batch did not.
C3_Witness ==
    /\ mpc = "done"
    /\ num_runs >= 3
    /\ parallel = 2
    /\ Faulted(1)
    /\ ~Faulted(2)
    /\ ~Faulted(3)

\* Sub-tests a pass still owes after bufferbloat, as named by the claim.
LaterTests == {"jitter", "mtr", "mtu", "dns"}

C5_Completeness ==
    mpc = "done" =>
        /\ Len(ret) = num_runs
        /\ \A i \in 1..Len(ret) : ret[i].run_id \in Runs
        /\ \A r \in Runs : Cardinality(EntriesOf(r)) = 1
        /\ \A i \in 1..Len(ret) :
              (ret[i].error = NoError) <=> (ret[i].results # EmptyResults)

\* C5 witness: a run of three passes has returned with an error entry and a
\* result entry in its list.
C5_Witness ==
    /\ mpc = "done"
    /\ num_runs >= 3
    /\ \E i, j \in 1..Len(ret) :
          ret[i].error # NoError /\ ret[j].error = NoError

(***************************************************************************)
(* Properties of the selector.                                             *)
(***************************************************************************)
\* Pair pr passed both probes / the connectivity probe.
PassBoth(pr) == connMemo[pr] = "yes" /\ udpMemo[pr] = "yes"
PassConn(pr) == connMemo[pr] = "yes"

\* C6 (selector tier FULL): as soon as a pair has passed both probes the
\* selector has returned, at tier FULL; and a tier-FULL return gives a pair
\* that passed both probes, every pair before it in configuration order was
\* probed and did not pass both, and no pair after it was probed at all, in
\* either pass.
C6_TierFull ==
    /\ (\E pr \in Pairs : PassBoth(pr)) => selPc = "done" /\ selMsg = Full
    /\ (selPc = "done" /\ selMsg = Full) =>
          /\ selRet \in Pairs
          /\ PassBoth(selRet)
          /\ \A q \in Pairs : Before(q, selRet) => q \in probed1 /\ ~PassBoth(q)
          /\ \A q \in Pairs : Before(selRet, q) =>
                q \notin probed1 /\ connMemo[q] = "unknown" /\ udpMemo[q] = "unknown"
          /\ probed2 = {}

\* C6 witness: the selector returned at tier FULL a pair of the second host,
\* after a pair that passed connectivity but not the UDP probe.
C6_Witness ==
    /\ selPc = "done"
    /\ selMsg = Full
    /\ selRet[1] >= 2
    /\ \E q \in Pairs : Before(q, selRet) /\ PassConn(q) /\ udpMemo[q] = "no"

\* C7 (selector tier PARTIAL): the second pass is entered only when every
\* pair was tried in the first pass and none passed both probes; and when no
\* pair passes both but some pair passes connectivity, the selector returns,
\* at tier PARTIAL, the first pair in configuration order that passes
\* connectivity, probing no pair after it in the second pass.
C7_TierPartial ==
    /\ (selPc \in {"pass2", "fallback"} \/ (selPc = "done" /\ selMsg # Full)) =>
          /\ probed1 = Pairs
          /\ \A pr \in Pairs : ~PassBoth(pr)
    /\ (selPc = "done" /\ (\A pr \in Pairs : ~PassBoth(pr))
                       /\ (\E pr \in Pairs : PassConn(pr))) =>
          /\ selMsg = Partial
          /\ selRet \in Pairs
          /\ PassConn(selRet)
          /\ \A q \in Pairs : Before(q, selRet) => connMemo[q] = "no" /\ q \in probed2
          /\ \A q \in Pairs : Before(selRet, q) => q \notin probed2

\* C7 witness: the selector returned at tier PARTIAL a pair that is not the
\* first configured pair.
C7_Witness ==
    /\ selPc = "done"
    /\ selMsg = Partial
    /\ selRet # <<1, 1>>
    /\ PassConn(selRet)

\* C8 (selector tier FALLBACK): the selector is never stuck before it
\* returns, what it returns is always a pair of the table, and when no pair
\* passes the connectivity probe it returns the first port of the first host.
C8_TierFallback ==
    /\ selPc \in {"pass1", "pass2", "fallback"} => ENABLED SelectNext
    /\ selPc = "done" => selRet \in Pairs
    /\ (selPc = "done" /\ (\A pr \in Pairs : connMemo[pr] = "no")) =>
          /\ selRet = <<1, 1>>
          /\ selMsg = Fallback
          /\ probed2 = Pairs

\* C8 witness: the selector returned the fallback pair for a table of two
\* hosts, the first with several ports, none of which responded.
C8_Witness ==
    /\ selPc = "done"
    /\ selMsg = Fallback
    /\ Len(table) >= 2
    /\ table[1] >= 2
    /\ \A pr \in Pairs : connMemo[pr] = "no"

\* C9 as stated (the result carries its tier): the value returned by the
\* selector has three components, host, port and tier, the tier being the
\* one the selection was made at.
C9_Original ==
    selPc = "done" =>
        /\ Len(selRet) = 3
        /\ selRet[3] = selMsg

(***************************************************************************)
(* Properties of the MTU search.                                           *)
(***************************************************************************)
\* C10 (MTU search exactness): when the binary search of mtu_test has run to
\* its end over a path whose probe succeeds exactly for the sizes <= S, it
\* returns S + 28 for every S in 0..1472, and None when the probe fails for
\* every size, 0 included.
C10_MtuExact ==
    (mtuPc = "done" /\ Supported(system)) =>
        /\ mtuS \in 0..MtuHigh => mtuRet = <<mtuS + 28>>
        /\ mtuS = -1 => mtuRet = <<>>

\* C10 witness: the search has returned 28 for S = 0, after probing size 0
\* as its last probe.
C10_Witness ==
    /\ mtuPc = "done"
    /\ Supported(system)
    /\ mtuS = 0
    /\ mtuRet = <<28>>
    /\ Len(mtuProbes) >= 2
    /\ mtuProbes[Len(mtuProbes)] = 0

(***************************************************************************)
(* Properties of the grading engine.                                       *)
(***************************************************************************)
\* The latency increase of a loaded window over the baseline as the grading
\* rule states it: a missing window counts as the baseline (increase 0).
Increase(x, base) == IF x = <<>> THEN 0 ELSE x[1] - base

\* C11 (bufferbloat grade): whenever bufferbloat_test returns a result, its
\* grade is A if worst < 30, B if 30 <= worst < 100 and C if worst >= 100,
\* where worst is the larger of the upload and download increases over the
\* baseline and a missing window has increase 0; in particular the means
\* (20, 45, 30) give A, (20, 110, 40) give B and (20, 200, missing) give C.
C11_BufferbloatGrade ==
    (bbPc = "done" /\ bbRet # <<>>) =>
        LET r == bbRet[1]
            worst == Max(Increase(r.upload_avg, r.baseline_avg),
                         Increase(r.download_avg, r.baseline_avg))
        IN /\ r.grade = "A" <=> worst < 30
           /\ r.grade = "B" <=> (30 <= worst /\ worst < 100)
           /\ r.grade = "C" <=> worst >= 100
           /\ (r.baseline_avg = 20 /\ r.upload_avg = <<45>> /\ r.download_avg = <<30>>)
                 => r.grade = "A"
           /\ (r.baseline_avg = 20 /\ r.upload_avg = <<110>> /\ r.download_avg = <<40>>)
                 => r.grade = "B"
           /\ (r.baseline_avg = 20 /\ r.upload_avg = <<200>> /\ r.download_avg = <<>>)
                 => r.grade = "C"

\* C11 witness: bufferbloat_test has graded C a pass of baseline 20 whose
\* upload window averaged 200 and whose download window is missing.
C11_Witness ==
    /\ bbPc = "done"
    /\ bbRet # <<>>
    /\ bbRet[1].baseline_avg = 20
    /\ bbRet[1].upload_avg = <<200>>
    /\ bbRet[1].download_avg = <<>>
    /\ bbRet[1].grade = "C"

\* The UDP summary has all three fields.
JitComplete ==
    /\ jitOut.kind = "json"
    /\ jitOut.jitter_ms # <<>>
    /\ jitOut.lost_packets # <<>>
    /\ jitOut.packets # <<>>

\* C12 (jitter grading): when jitter, lost and total are all present the
\* result carries them with status OK exactly when jitter < 20 and lost = 0,
\* and WARN otherwise (jitter 15 with lost 0 is OK, with lost 3 is WARN);
\* when a field is missing, the run fails or its output is unparsable,
\* jitter_test returns None, which is neither OK nor WARN.
C12_JitterGrade ==
    jitPc = "done" =>
        /\ JitComplete =>
              /\ jitRet # <<>>
              /\ jitRet[1].jitter_ms = jitOut.jitter_ms[1]
              /\ jitRet[1].lost = jitOut.lost_packets[1]
              /\ jitRet[1].total = jitOut.packets[1]
              /\ jitRet[1].status \in {"OK", "WARN"}
              /\ jitRet[1].status = "OK" <=>
                    (jitOut.jitter_ms[1] < 20 /\ jitOut.lost_packets[1] = 0)
              /\ (jitOut.jitter_ms = <<15>> /\ jitOut.lost_packets = <<0>>)
                    => jitRet[1].status = "OK"
              /\ (jitOut.jitter_ms = <<15>> /\ jitOut.lost_packets = <<3>>)
                    => jitRet[1].status = "WARN"
        /\ ~JitComplete => jitRet = <<>>

\* C12 witness: jitter_test has returned WARN for jitter 15 with 3 packets
\* lost of 100.
C12_Witness ==
    /\ jitPc = "done"
    /\ jitOut.jitter_ms = <<15>>
    /\ jitOut.lost_packets = <<3>>
    /\ jitOut.packets = <<100>>
    /\ jitRet # <<>>
    /\ jitRet[1].status = "WARN"

\* The passes that count for the aggregate: those without an error.
ValidPasses == ValidResults(summary_results)

\* Pass r produced metric m, whatever its value; an impact needs the loaded
\* mean, and the loss rate exists when packets were sent.
Produced(r, m) ==
    CASE m = "baseline" -> r.bufferbloat # <<>>
      [] m = "upload" -> r.bufferbloat # <<>> /\ r.bufferbloat[1].upload_avg # <<>>
      [] m = "download" -> r.bufferbloat # <<>> /\ r.bufferbloat[1].download_avg # <<>>
      [] m = "jitter" -> r.jitter # <<>>
      [] m = "loss_rate" -> r.jitter # <<>> /\ r.jitter[1].total[1] > 0
      [] m \in Resolvers -> r.dns # <<>> /\ r.dns[1][m] # <<>>

\* The values of metric m of the passes that produced it, in pass order.
RECURSIVE ProducedOf(_, _)
ProducedOf(rs, m) ==
    IF rs = <<>> THEN <<>>
    ELSE LET front == ProducedOf(SubSeq(rs, 1, Len(rs) - 1), m)
             r == rs[Len(rs)]
         IN IF Produced(r, m) THEN Append(front, Appended(r, m)) ELSE front

\* Per scalar metric, the values of the passes that produced it, a measured
\* value of 0 included.
ProducedSamples == [m \in Metrics |-> ProducedOf(ValidPasses, m)]

\* C13 (aggregator sample sets): for each scalar metric the min, max and
\* mean are taken over exactly the passes that produced the metric, a pass
\* with a measured value of 0 included and only passes without the metric
\* excluded; a metric that no pass produced has no line in the report.
C13_Original ==
    aggPc = "done" =>
        \A m \in Metrics :
            /\ report[1].samples[m] = ProducedSamples[m]
            /\ report[1].lines[m] = <<>> <=> ProducedSamples[m] = <<>>
            /\ report[1].lines[m] # <<>> =>
                  /\ report[1].lines[m][1].min = MinOf(ProducedSamples[m])
                  /\ report[1].lines[m][1].max = MaxOf(ProducedSamples[m])
                  /\ SameMean(report[1].lines[m][1].mean, MeanOf(ProducedSamples[m]))

\* The aggregate of the list <<r>>, for the r at the head of the list.
SingleSummary == StatisticalSummary(<<summary_results[1]>>)

\* C14 (aggregator idempotence under duplication): the aggregate of [r, r]
\* has, for every metric, a sample list twice as long as the aggregate of
\* [r] and the same min, max and mean; every hop line has the same max loss,
\* mean RTT and max stdev.
C14_Duplication ==
    (/\ aggPc = "done"
     /\ Len(summary_results) = 2
     /\ summary_results[1] = summary_results[2]) =>
        /\ \A m \in Metrics :
              /\ Len(report[1].samples[m]) = 2 * Len(SingleSummary.samples[m])
              /\ report[1].lines[m] = <<>> <=> SingleSummary.lines[m] = <<>>
              /\ report[1].lines[m] # <<>> =>
                    /\ report[1].lines[m][1].min = SingleSummary.lines[m][1].min
                    /\ report[1].lines[m][1].max = SingleSummary.lines[m][1].max
                    /\ SameMean(report[1].lines[m][1].mean,
                                SingleSummary.lines[m][1].mean)
        /\ Len(report[1].hops) = Len(SingleSummary.hops)
        /\ \A k \in 1..Len(report[1].hops) :
              /\ report[1].hops[k].hop = SingleSummary.hops[k].hop
              /\ report[1].hops[k].max_loss = SingleSummary.hops[k].max_loss
              /\ report[1].hops[k].max_stdev = SingleSummary.hops[k].max_stdev
              /\ report[1].hops[k].avg_rtt.n = 2 * SingleSummary.hops[k].avg_rtt.n
              /\ SameMean(report[1].hops[k].avg_rtt, SingleSummary.hops[k].avg_rtt)

\* C14 witness: the aggregate of a full pass concatenated with itself has
\* two samples of every metric and one hop line.
C14_Witness ==
    /\ aggPc = "done"
    /\ summary_results = <<FullPass, FullPass>>
    /\ \A m \in Metrics : Len(report[1].samples[m]) = 2
    /\ Len(report[1].hops) = 1

\* The places (pass, position) of the hop records with index h.
HopPlaces(h) ==
    {pl \in (1..Len(ValidPasses)) \X (1..MaxHops) :
        /\ pl[2] <= Len(ValidPasses[pl[1]].mtr)
        /\ ValidPasses[pl[1]].mtr[pl[2]][1] = h}

\* The hop record at a place.
HopAt(pl) == ValidPasses[pl[1]].mtr[pl[2]]

\* The passes containing a record of hop h.
PassesWithHop(h) == {pl[1] : pl \in HopPlaces(h)}

\* The sum of the average RTTs of the records at the places pls.
RECURSIVE RttSum(_)
RttSum(pls) ==
    IF pls = {} THEN 0
    ELSE LET pl == CHOOSE x \in pls : TRUE IN HopAt(pl)[3] + RttSum(pls \ {pl})

\* C15 (per-hop aggregation): the report has one line for every hop index
\* that occurs in some pass, in strictly increasing order of the index, and
\* the line carries the maximum loss, the mean of the average RTTs and the
\* maximum stdev over exactly the passes containing the hop, whatever the
\* lengths of the routes and the order of the passes.
C15_PerHop ==
    aggPc = "done" =>
        LET lines == report[1].hops
        IN /\ {lines[k].hop : k \in 1..Len(lines)}
                = {h \in 1..MaxHops : HopPlaces(h) # {}}
           /\ \A k \in 1..(Len(lines) - 1) : lines[k].hop < lines[k + 1].hop
           /\ \A k \in 1..Len(lines) :
                 /\ \E pl \in HopPlaces(lines[k].hop) : HopAt(pl)[2] = lines[k].max_loss
                 /\ \A pl \in HopPlaces(lines[k].hop) : HopAt(pl)[2] <= lines[k].max_loss
                 /\ \E pl \in HopPlaces(lines[k].hop) : HopAt(pl)[4] = lines[k].max_stdev
                 /\ \A pl \in HopPlaces(lines[k].hop) : HopAt(pl)[4] <= lines[k].max_stdev
                 /\ lines[k].avg_rtt.n = Cardinality(PassesWithHop(lines[k].hop))
                 /\ lines[k].avg_rtt.sum = RttSum(HopPlaces(lines[k].hop))

\* C15 witness: two passes with routes of different lengths, the first with
\* hop 2 only and the second with hops 1 and 2, aggregated into the lines of
\* hop 1 (one pass) and hop 2 (two passes).
C15_Witness ==
    /\ aggPc = "done"
    /\ Len(summary_results) = 2
    /\ Len(summary_results[1].mtr) = 1
    /\ summary_results[1].mtr[1][1] = 2
    /\ Len(summary_results[2].mtr) = 2
    /\ Len(report[1].hops) = 2
    /\ report[1].hops[1].hop = 1
    /\ report[1].hops[1].avg_rtt.n = 1
    /\ report[1].hops[2].avg_rtt.n = 2

\* Every graded sub-test of the pass produced a measurement.
AllMeasured ==
    /\ final_results[1].bufferbloat # <<>>
    /\ final_results[1].jitter # <<>>
    /\ final_results[1].mtr # <<>>
    /\ final_results[1].mtu # <<>>
    /\ final_results[1].dns # <<>>
    /\ \A x \in Resolvers : final_results[1].dns[1][x] # <<>>

\* C16 (no success without measurement): display_final_summary prints that
\* all tests passed only if bufferbloat, jitter, route, MTU and DNS each
\* produced a measurement; with any of them missing it does not claim
\* success.
C16_Original ==
    (fsPc = "done" /\ verdict = "all_passed") => AllMeasured

\* C17 (log single-writer discipline): with two or more passes writing to
\* the log concurrently, the writes of one pass's block (header, timestamp,
\* entries, separator) are contiguous in the file: no write of another pass
\* lies between two writes of the same pass.
C17_Original ==
    \A i, j, k \in 1..Len(log_file) :
        (i < j /\ j < k /\ log_file[i].by = log_file[k].by)
            => log_file[j].by = log_file[i].by

\* C18 (bounded probes): every external call of a pass is cut off by a
\* timeout, so a pass that has not finished can always go on: the pass is
\* never inside a call that does not return and has no timeout.
C18_Original ==
    probePc \in 1..Len(ProbeCalls) =>
        (ProbeCalls[probePc] \in hangs => TimeoutOf(ProbeCalls[probePc]) # <<>>)

\* C19 (exit status): the program ends with a failure exit code only when a
\* required library (ping3, dnspython, requests) is missing, and then before
\* any sub-test has started; with the required libraries present it ends
\* with exit code 0 whatever the sub-tests did.
C19_Original ==
    mainPc = "exited" =>
        /\ exit_code # <<0>> => (missing \cap Required # {} /\ ~started)
        /\ missing \cap Required = {} => exit_code = <<0>>

\* C20 (scheduler termination): for every num_runs >= 0 and every integer
\* parallel, 0 and negative values included, each turn of the batching loop
\* that finds runs remaining strictly shrinks the list of remaining runs.
C20_Original ==
    [][(mpc = "while" /\ remaining_runs # <<>> /\ mpc' = "start")
          => Len(remaining_runs') < Len(remaining_runs)]_vars

\* C21 (bufferbloat overlap protocol): in each load phase the sampler is
\* started before the transfer, the transfer is awaited before the sampler
\* is joined, and the samples are read only after the join, when the sampler
\* appends no more; the sampler is joined also when the transfer could not
\* be launched; at most one sampler and one transfer are active at a time,
\* and both units of the upload have finished before the download starts.
C21_OverlapProtocol ==
    /\ \A ph \in Phases :
          /\ proc[ph] # "idle" => th[ph] # "idle"
          /\ joined[ph] => (proc[ph] \in {"exited", "failed"} /\ th[ph] = "finished")
          /\ pings[ph] # <<>> => (joined[ph] /\ pings[ph] = <<loaded[ph]>>)
          /\ (proc[ph] = "failed" /\ olPc \in {"return", "done"} /\ olPhase = ph)
                => joined[ph]
    /\ ~(th["upload"] = "running" /\ th["download"] = "running")
    /\ ~(proc["upload"] = "running" /\ proc["download"] = "running")
    /\ (th["download"] # "idle" \/ proc["download"] # "idle") =>
          /\ th["upload"] = "finished"
          /\ proc["upload"] \in {"exited", "failed"}
          /\ pings["upload"] # <<>>

\* C21 witness: the download transfer could not be launched, its sampler
\* was joined all the same and its samples read, after an upload phase in
\* which the sampler overlapped a running transfer to the end.
C21_Witness ==
    /\ olPc = "done"
    /\ proc["upload"] = "exited"
    /\ proc["download"] = "failed"
    /\ joined["download"]
    /\ pings["upload"] = <<MaxSamples>>
    /\ pings["download"] # <<>>

\* C22 (requested concurrency respected end to end): for every run count and
\* every concurrency level given on the command line, the number of passes
\* running at the same moment never exceeds the requested level.
C22_Original ==
    Cardinality(active) <= req_parallel

\* C23 (MTU search termination for any probe behaviour): whatever the pings
\* answer, the search is never stuck before it returns, makes at most 11
\* probes, probes only sizes in 0..1472 and no size twice, and returns None
\* exactly when no probe succeeded and otherwise 28 plus the largest size
\* probed successfully.
C23_MtuAnyProbe ==
    /\ mtuPc # "done" => ENABLED MtuAnyNext
    /\ Len(mtuProbes) <= 11
    /\ \A i \in 1..Len(mtuProbes) : mtuProbes[i] \in 0..MtuHigh
    /\ \A i, j \in 1..Len(mtuProbes) : i # j => mtuProbes[i] # mtuProbes[j]
    /\ mtuPc = "done" =>
          /\ mtuRet = <<>> <=> succeeded = {}
          /\ succeeded # {} =>
                \E s \in succeeded :
                    /\ mtuRet = <<s + 28>>
                    /\ \A t \in succeeded : t <= s

\* C23 witness: the search has returned after 11 probes of which the first
\* succeeded and the last failed.
C23_Witness ==
    /\ mtuPc = "done"
    /\ Len(mtuProbes) = 11
    /\ mtuProbes[1] \in succeeded
    /\ mtuProbes[11] \notin succeeded
    /\ mtuRet # <<>>

\* C24 (no baseline means no grade): when the baseline window has no reply,
\* bufferbloat_test returns None, has started no transfer and has assigned
\* no grade; a result and its grade exist only with a measured baseline,
\* which the result carries; and a loaded window without reply stays None in
\* the result (only the grading substitutes the baseline for it).
C24_NoBaselineNoGrade ==
    /\ base_empty => (bbPc = "done" /\ bbRet = <<>> /\ transfers = <<>>)
    /\ transfers # <<>> => (~base_empty /\ bbPc # "baseline")
    /\ bbPc = "done" => (bbRet = <<>> <=> base_empty)
    /\ bbRet # <<>> =>
          /\ ~base_empty
          /\ bbRet[1].baseline_avg = base_avg
          /\ bbRet[1].upload_avg = upload_avg
          /\ bbRet[1].download_avg = download_avg
          /\ bbRet[1].grade \in {"A", "B", "C"}

\* C24 witness: bufferbloat_test has returned None after an empty baseline
\* window, with no transfer launched.
C24_Witness ==
    /\ bbPc = "done"
    /\ base_empty
    /\ bbRet = <<>>
    /\ transfers = <<>>

(***************************************************************************)
(* Properties of the route flags.                                          *)
(***************************************************************************)
\* The report lines that parse, among the first n.
ParsedLines(n) == SelectSeq(SubSeq(mtr_out.lines, 1, n), LAMBDA ln : ln.parses)

\* The lines read so far.
LinesRead == IF mtrPc = 0 THEN Len(mtr_out.lines) ELSE mtrPc - 1

\* C25 (route flags are independent): for every hop record mtr_test raises
\* LOSS exactly when loss > 0, HIGH-JITTER exactly when stdev > 20 and
\* LATENCY-VARIANCE exactly when worst - best > 100, each flag whatever the
\* two others are.
C25_RouteFlags ==
    /\ Len(hop_flags) = Len(ParsedLines(LinesRead))
    /\ Len(mtr_hops) = Len(hop_flags)
    /\ \A i \in 1..Len(hop_flags) :
          LET ln == ParsedLines(LinesRead)[i]
          IN /\ mtr_hops[i] = <<ln.hop, ln.loss, ln.avg, ln.stdev>>
             /\ "LOSS" \in hop_flags[i] <=> ln.loss > 0
             /\ "HIGH-JITTER" \in hop_flags[i] <=> ln.stdev > 20
             /\ "LATENCY-VAR" \in hop_flags[i] <=> ln.worst - ln.best > 100

\* C25 witness: mtr_test has returned a route whose first hop carries all
\* three flags and whose second hop carries HIGH-JITTER alone.
C25_Witness ==
    /\ mtrRet # <<>>
    /\ Len(hop_flags) = 2
    /\ hop_flags[1] = {"LOSS", "HIGH-JITTER", "LATENCY-VAR"}
    /\ hop_flags[2] = {"HIGH-JITTER"}

(***************************************************************************)
(* Properties of the two jitter thresholds.                                *)
(***************************************************************************)
\* C26 (two jitter thresholds): a hop record is flagged live exactly when
\* its stdev > 20, and the aggregate line of a hop is flagged exactly when
\* the maximum stdev over the passes > 10; so a hop whose stdev lies in
\* (10, 20] in every pass is flagged in the aggregate and in no single run,
\* and a hop flagged live in some pass is flagged in the aggregate.
C26_TwoThresholds ==
    aggPc = "done" =>
        LET lines == report[1].hops
        IN \A k \in 1..Len(lines) :
              LET pls == HopPlaces(lines[k].hop)
                  flagged == "JITTER" \in lines[k].status
              IN /\ pls # {}
                 /\ \A pl \in pls : LiveJitter(HopAt(pl)) <=> HopAt(pl)[4] > 20
                 /\ flagged <=> \E pl \in pls : HopAt(pl)[4] > 10
                 /\ (\A pl \in pls : HopAt(pl)[4] > 10 /\ HopAt(pl)[4] <= 20)
                       => (flagged /\ \A pl \in pls : ~LiveJitter(HopAt(pl)))
                 /\ (\E pl \in pls : LiveJitter(HopAt(pl))) => flagged

\* C26 witness: two passes aggregated; hop 1 has stdev 20 in both, is
\* flagged in the aggregate and live in neither; hop 2 is flagged live in
\* the second pass only and flagged in the aggregate.
C26_Witness ==
    /\ aggPc = "done"
    /\ Len(summary_results) = 2
    /\ \A i \in 1..2 :
          /\ Len(summary_results[i].mtr) = 2
          /\ summary_results[i].mtr[1][4] = 20
          /\ ~LiveJitter(summary_results[i].mtr[1])
    /\ ~LiveJitter(summary_results[1].mtr[2])
    /\ LiveJitter(summary_results[2].mtr[2])
    /\ Len(report[1].hops) = 2
    /\ "JITTER" \in report[1].hops[1].status
    /\ "JITTER" \in report[1].hops[2].status

(***************************************************************************)
(* Properties of the labels of the log blocks.                             *)
(***************************************************************************)
\* The positions of the log holding the header written by pass p.
HeadersOf(p) ==
    {i \in 1..Len(log_file) : log_file[i].by = p /\ log_file[i].text[1] = "header"}

\* C27 (log blocks carry their pass identity): every pass that completed
\* has written exactly one block, and the run number in the header of each
\* block is the run_id of the pass that wrote it, so the blocks of distinct
\* passes carry distinct numbers.
C27_Original ==
    /\ \A p \in LogPasses : logPos[p] = 0 => Cardinality(HeadersOf(p)) = 1
    /\ \A p \in LogPasses : \A i \in HeadersOf(p) : log_file[i].text[2] = p

(***************************************************************************)
(* Properties of the choice of a port for a named server.                  *)
(***************************************************************************)
\* The ports of the named server that passed both probes, and those that
\* passed the connectivity probe.
PortsBoth == {p \in 1..table[1] : PassBoth(<<1, p>>)}
PortsConn == {p \in 1..table[1] : PassConn(<<1, p>>)}

\* The least element of a non-empty set of ports.
FirstOf(ps) == CHOOSE p \in ps : \A q \in ps : p <= q

\* C28 (explicit-server selection agrees with the selector): for a named
\* server of the table, the port main chooses is the first port passing
\* both probes, else the first port passing connectivity, else the first
\* configured port, and it is the port select_best_server returns for the
\* table holding that server alone under the same probe outcomes.
C28_ExplicitAgrees ==
    (exPc = "done" /\ named = "listed") =>
        /\ iperf_port # <<>>
        /\ iperf_port[1] = IF PortsBoth # {} THEN FirstOf(PortsBoth)
                           ELSE IF PortsConn # {} THEN FirstOf(PortsConn)
                           ELSE 1
        /\ udp_support <=> PortsBoth # {}
        /\ selPc = "done" =>
              /\ selRet = <<1, iperf_port[1]>>
              /\ udp_support <=> selMsg = Full
              /\ (working_port = <<>>) <=> selMsg = Fallback

\* C28 witness: both have finished on a server with three ports of which
\* the first fails connectivity and the two others pass it without UDP:
\* main and the selector both chose port 2, at the TCP-only tier.
C28_Witness ==
    /\ exPc = "done" /\ named = "listed" /\ selPc = "done"
    /\ table = <<3>>
    /\ connMemo[<<1, 1>>] = "no"
    /\ udpMemo[<<1, 2>>] = "no" /\ udpMemo[<<1, 3>>] = "no"
    /\ iperf_port = <<2>>
    /\ selRet = <<1, 2>>
    /\ selMsg = Partial

====
